---- MODULE Spec2Model ----
(***************************************************************************)
(* Model of the silius bundler user-operation pool:                        *)
(*   - the composable check tuples        (crates/uopool/src/validate/mod.rs)       *)
(*   - StandardUserOperationValidator     (crates/uopool/src/validate/validator.rs) *)
(*   - the UoPoolService gRPC handlers    (src/uopool/services/uopool.rs)           *)
(*   - the Mempool storage contract, which the validator and the service   *)
(*     only call (its code is not among the sources; modelled from the     *)
(*     specification, sections 3 and 4.1).                                 *)
(***************************************************************************)
EXTENDS Integers, Sequences, FiniteSets, TLC

VARIABLES
    mempools,              \* UoPoolService.mempools: MempoolId -> Mempool
    reputations,           \* UoPoolService.reputations: MempoolId -> (Address -> entry)
    sanity_check_results,  \* UoPoolService.sanity_check_results: hashes with a result set
    task,                  \* the requests in flight: one record per task
    comp,                  \* one application of a check tuple (composite specification)
    mp_last,               \* what the last direct mempool operation returned
    mp_req,                \* the user operation the last direct mempool add was given
    reputation,            \* one Reputation instance: entries, whitelist, blacklist
    rep_obs,               \* what was last asked of that instance, and its answer
    wire,                  \* one database value on its way through compress / decompress
    mp_start               \* the mempool the admissions in flight together started from

\* the variables of the specifications that drive one component directly
direct == <<mp_last, mp_req, reputation, rep_obs, wire, mp_start>>

vars == <<mempools, reputations, sanity_check_results, task, comp, direct>>

----------------------------------------------------------------------------
(* Bounds of the model *)

\* largest nonce of the user operations drawn
MaxNonce == 1
\* longest check tuple applied in the composite specification
MaxChecks == 3

----------------------------------------------------------------------------
(* The universe: addresses, user operations, entry points *)

Senders == {"s1", "s2"}
Paymasters == {"pm"}
Factories == {"fac"}
Address == Senders \cup Paymasters \cup Factories
Nonces == 0..MaxNonce
\* (max_fee_per_gas, max_priority_fee_per_gas) pairs of the operations drawn
FeePairs == {<<20, 10>>, <<21, 10>>, <<22, 11>>}

\* Option<T> is a set with at most one element
None == {}
Some(x) == {x}
Unwrap(o) == CHOOSE x \in o : TRUE

UserOperation(s, n, fp, pm, fac) ==
    [sender |-> s, nonce |-> n, max_fee_per_gas |-> fp[1],
     max_priority_fee_per_gas |-> fp[2], paymaster |-> pm, factory |-> fac]

\* every user operation of the universe (the mempool specification draws from it)
UserOperations ==
    {UserOperation(s, n, fp, None, None) : s \in Senders, n \in Nonces, fp \in FeePairs}
    \cup {UserOperation(s, n, <<22, 11>>, Some("pm"), None) : s \in Senders, n \in Nonces}

\* the operations the service and validator requests draw from:
\* UoA and UoB share (sender, nonce); UoB bumps both fees by 10 percent
UoA == UserOperation("s1", 0, <<20, 10>>, None, None)
UoB == UserOperation("s1", 0, <<22, 11>>, Some("pm"), None)
UoC == UserOperation("s2", 0, <<20, 10>>, None, Some("fac"))
RequestUos == {UoA, UoB, UoC}

chain_id == 1
EntryPoints == {"ep1", "ep2", "ep3"}
mempool_id(entry_point, chain) == <<entry_point, chain>>
\* UoPoolService.entry_points: the configured MempoolId -> EntryPoint map
entry_points ==
    [id \in {mempool_id("ep1", chain_id), mempool_id("ep2", chain_id)} |-> id[1]]
MempoolIds == DOMAIN entry_points

\* UserOperation::hash(entry_point, chain_id): injective in all three
Hash(uo, entry_point, chain) == [uo |-> uo, entry_point |-> entry_point, chain_id |-> chain]

\* the entities of a user operation: sender, and factory / paymaster when present
Entities(uo) == {uo.sender} \cup uo.factory \cup uo.paymaster

----------------------------------------------------------------------------
(* Mempool: primary store and indices (specification sections 3, 4.1) *)

MAX_UOS_PER_SENDER == 4
GAS_INCREASE_PERC == 10
StakedSenders == {"s2"}

EmptyFcn == [x \in {} |-> x]

EmptyMempool ==
    [uo_by_hash |-> EmptyFcn,
     sender_to_hashes |-> [a \in Address |-> {}],
     entity_to_hashes |-> [a \in Address |-> {}]]

\* the hashes of a mempool's primary store
Stored(mp) == DOMAIN mp.uo_by_hash

\* get_all(): the stored user operations (order unspecified)
MempoolGetAll(mp) == {mp.uo_by_hash[h] : h \in DOMAIN mp.uo_by_hash}

\* get_prev_by_sender(uo): the stored entry with the same (sender, nonce),
\* found through the per-sender index and resolved in the primary store
MempoolGetPrevBySender(mp, uo) ==
    LET cands == {h \in mp.sender_to_hashes[uo.sender] :
                     h \in DOMAIN mp.uo_by_hash /\ mp.uo_by_hash[h].nonce = uo.nonce}
    IN  IF cands = {} THEN None ELSE Some(mp.uo_by_hash[CHOOSE h \in cands : TRUE])

\* insert an entry into the primary store and every index
MempoolInsert(mp, uo, h) ==
    [uo_by_hash |-> [x \in DOMAIN mp.uo_by_hash \cup {h} |->
                        IF x = h THEN uo ELSE mp.uo_by_hash[x]],
     sender_to_hashes |-> [mp.sender_to_hashes EXCEPT ![uo.sender] = @ \cup {h}],
     entity_to_hashes |-> [a \in Address |->
                        IF a \in Entities(uo) THEN mp.entity_to_hashes[a] \cup {h}
                        ELSE mp.entity_to_hashes[a]]]

\* a remove that forgets the per-sender index
MempoolDeleteKeepingSenderIndex(mp, h) ==
    [uo_by_hash |-> [x \in DOMAIN mp.uo_by_hash \ {h} |-> mp.uo_by_hash[x]],
     sender_to_hashes |-> mp.sender_to_hashes,
     entity_to_hashes |-> [a \in Address |-> mp.entity_to_hashes[a] \ {h}]]

\* remove(hash): delete the entry and prune all indices
MempoolDelete(mp, h) ==
    [uo_by_hash |-> [x \in DOMAIN mp.uo_by_hash \ {h} |-> mp.uo_by_hash[x]],
     sender_to_hashes |-> [a \in Address |-> mp.sender_to_hashes[a] \ {h}],
     entity_to_hashes |-> [a \in Address |-> mp.entity_to_hashes[a] \ {h}]]

MempoolRemove(mp, h) ==
    IF h \in DOMAIN mp.uo_by_hash
    THEN [ok |-> TRUE, err |-> "", mp |-> MempoolDelete(mp, h)]
    ELSE [ok |-> FALSE, err |-> "NotFound", mp |-> mp]

\* the least fee that replaces an entry whose fee is x: x raised by
\* GAS_INCREASE_PERC percent, rounded up
NeededFee(x) == (x * (100 + GAS_INCREASE_PERC) + 99) \div 100

\* the fee ReplacementUnderpriced names: that of the first fee found too low
Needed(old, new) ==
    IF new.max_fee_per_gas * 100 < old.max_fee_per_gas * (100 + GAS_INCREASE_PERC)
    THEN NeededFee(old.max_fee_per_gas)
    ELSE NeededFee(old.max_priority_fee_per_gas)

\* a replacement rule that wants more than the percentage
ReplacementAllowedStrict(old, new) ==
    /\ new.max_fee_per_gas * 100 > old.max_fee_per_gas * (100 + GAS_INCREASE_PERC)
    /\ new.max_priority_fee_per_gas * 100
           > old.max_priority_fee_per_gas * (100 + GAS_INCREASE_PERC)

\* the replacement rule: both fees raised by at least GAS_INCREASE_PERC percent
ReplacementAllowed(old, new) ==
    /\ new.max_fee_per_gas * 100 >= old.max_fee_per_gas * (100 + GAS_INCREASE_PERC)
    /\ new.max_priority_fee_per_gas * 100
           >= old.max_priority_fee_per_gas * (100 + GAS_INCREASE_PERC)

\* an add that inserts beside an existing (sender, nonce) entry
MempoolAddNoReplace(mp, uo, h) ==
    [ok |-> TRUE, err |-> "", needed |-> 0, mp |-> MempoolInsert(mp, uo, h)]

\* an add that lets an unstaked sender past the limit by one
MempoolAddOverLimit(mp, uo, h) ==
    LET prev == MempoolGetPrevBySender(mp, uo)
    IN  IF prev # None
        THEN IF ReplacementAllowed(Unwrap(prev), uo)
             THEN [ok |-> TRUE, err |-> "", needed |-> 0,
                   mp |-> MempoolInsert(
                            MempoolDelete(mp, Hash(Unwrap(prev), h.entry_point, h.chain_id)),
                            uo, h)]
             ELSE [ok |-> FALSE, err |-> "ReplacementUnderpriced",
                   needed |-> Needed(Unwrap(prev), uo), mp |-> mp]
        ELSE IF /\ uo.sender \notin StakedSenders
                /\ Cardinality(mp.sender_to_hashes[uo.sender]) > MAX_UOS_PER_SENDER
             THEN [ok |-> FALSE, err |-> "SenderOverLimit", needed |-> 0, mp |-> mp]
             ELSE [ok |-> TRUE, err |-> "", needed |-> 0, mp |-> MempoolInsert(mp, uo, h)]

\* add(entry): a fresh insert, or the replacement of the (sender, nonce) entry
MempoolAdd(mp, uo, h) ==
    LET prev == MempoolGetPrevBySender(mp, uo)
    IN  IF prev # None
        THEN IF ReplacementAllowed(Unwrap(prev), uo)
             THEN [ok |-> TRUE, err |-> "", needed |-> 0,
                   mp |-> MempoolInsert(
                            MempoolDelete(mp, Hash(Unwrap(prev), h.entry_point, h.chain_id)),
                            uo, h)]
             ELSE [ok |-> FALSE, err |-> "ReplacementUnderpriced",
                   needed |-> Needed(Unwrap(prev), uo), mp |-> mp]
        ELSE IF /\ uo.sender \notin StakedSenders
                /\ Cardinality(mp.sender_to_hashes[uo.sender]) >= MAX_UOS_PER_SENDER
             THEN [ok |-> FALSE, err |-> "SenderOverLimit", needed |-> 0, mp |-> mp]
             ELSE [ok |-> TRUE, err |-> "", needed |-> 0, mp |-> MempoolInsert(mp, uo, h)]

\* clear(): truncate the primary store and every index
MempoolClear(mp) == EmptyMempool

----------------------------------------------------------------------------
(* Check tuples (validate/mod.rs): run in declaration order, stop at the   *)
(* first error.  results[i] is what member i returns when it is run.       *)

Ok == "Ok"
CheckErrors == {"E1", "E2"}

RECURSIVE RunTuple(_, _, _)
RunTuple(results, i, ran) ==
    IF i > Len(results) THEN [res |-> Ok, ran |-> ran]
    ELSE IF results[i] = Ok THEN RunTuple(results, i + 1, Append(ran, i))
         ELSE [res |-> results[i], ran |-> Append(ran, i)]

\* a tuple that runs every member and reports the last error
RECURSIVE RunTupleNoShortCircuit(_, _, _, _)
RunTupleNoShortCircuit(results, i, ran, res) ==
    IF i > Len(results) THEN [res |-> res, ran |-> ran]
    ELSE RunTupleNoShortCircuit(results, i + 1, Append(ran, i),
                                IF results[i] = Ok THEN res ELSE results[i])

sanity_check_all(results) == RunTupleNoShortCircuit(results, 1, <<>>, Ok)

\* impl SanityCheck for (A, B, ...): each member awaited with `?'
sanity_check_impls(results) == RunTuple(results, 1, <<>>)

\* impl SimulationCheck for (A, B, ...)
simulation_check_impls(results) == RunTuple(results, 1, <<>>)

\* impl SimulationTraceCheck for (A, B, ...)
simulation_trace_check_impls(results) == RunTuple(results, 1, <<>>)

\* impl SanityCheck for () and impl SimulationTraceCheck for (): always Ok
unit_check == [res |-> Ok, ran |-> <<>>]

----------------------------------------------------------------------------
(* Values shared by the specifications *)

Tasks == {"t1", "t2"}

\* UserOperationValidationOutcome::default()
DefaultOutcome ==
    [prev_hash |-> None, pre_fund |-> 0, verification_gas_limit |-> 0,
     valid_after |-> None, code_hashes |-> None, storage_map |-> None,
     verified_block |-> 0]

NoError == [kind |-> "", err |-> "", message |-> ""]
NoResult == [status |-> "", message |-> "", result |-> "", error |-> NoError,
             out |-> DefaultOutcome, hash |-> None, est |-> None, uos |-> {},
             res |-> {}, eps |-> {}, chain_id |-> 0]

\* task[t].guards: the RwLock guards the request holds, as <<lock, mode>>
\* what the chain client last answered to a request: the call, the kind of
\* answer and the reason text of a FailedOp
NoAnswer == [call |-> "", res |-> "", reason |-> ""]
Answer(call, res, reason) == [call |-> call, res |-> res, reason |-> reason]

IdleTask ==
    [op |-> "", pc |-> "idle", uo |-> None, ep |-> None, mode |-> {}, cfg |-> "",
     hash |-> None, out |-> DefaultOutcome, sim_res |-> None, calls |-> <<>>,
     answer |-> NoAnswer, guards |-> {}, result |-> NoResult]

CompIdle == [kind |-> "", results |-> <<>>, state |-> "idle", res |-> "", ran |-> <<>>]

\* Reputation::new: no entry, nobody listed
EmptyReputation == [entities |-> EmptyFcn, whitelist |-> {}, blacklist |-> {}]
NoObservation == [op |-> "", addr |-> "", status |-> "", again |-> "", decays |-> 0,
                  start |-> EmptyFcn]
WireIdle == [kind |-> "", value |-> <<>>, bytes |-> <<>>, back |-> {}, state |-> "idle"]

InitPool ==
    /\ mempools = [id \in MempoolIds |-> EmptyMempool]
    /\ reputations = [id \in MempoolIds |-> EmptyFcn]
    /\ sanity_check_results = {}
    /\ mp_last = "none"
    /\ mp_req = None
    /\ reputation = EmptyReputation
    /\ rep_obs = NoObservation
    /\ wire = WireIdle
    /\ mp_start = None

----------------------------------------------------------------------------
(* StandardUserOperationValidator (validate/validator.rs) *)

Sanity == "Sanity"
Simulation == "Simulation"
SimulationTrace == "SimulationTrace"
\* EnumSet<UserOperationValidatorMode>
Modes == SUBSET {Sanity, Simulation, SimulationTrace}

\* a canonical validator that declares Opcodes before Gas
new_canonical_opcodes_first ==
    [sanity_checks |-> <<"Sender", "VerificationGas", "CallGas", "MaxFee",
                         "Paymaster", "Entities", "UnstakedEntities">>,
     simulation_checks |-> <<"Signature", "Timestamp">>,
     simulation_trace_checks |-> <<"Opcodes", "Gas", "ExternalContracts",
                                   "StorageAccess", "CallStack", "CodeHashes">>]

\* the check tuples the two constructors declare
new_canonical ==
    [sanity_checks |-> <<"Sender", "VerificationGas", "CallGas", "MaxFee",
                         "Paymaster", "Entities", "UnstakedEntities">>,
     simulation_checks |-> <<"Signature", "Timestamp">>,
     simulation_trace_checks |-> <<"Gas", "Opcodes", "ExternalContracts",
                                   "StorageAccess", "CallStack", "CodeHashes">>]

new_canonical_unsafe ==
    [sanity_checks |-> <<"Sender", "VerificationGas", "CallGas", "MaxFee",
                         "Paymaster", "Entities", "UnstakedEntities">>,
     simulation_checks |-> <<"Signature", "Timestamp">>,
     simulation_trace_checks |-> <<>>]

Validator(cfg) == IF cfg = "canonical" THEN new_canonical ELSE new_canonical_unsafe
Configs == {"canonical", "unsafe"}

Range(seq) == {seq[i] : i \in 1..Len(seq)}

\* what each member of a tuple returns when the checks in `failing' reject
\* the request: a rejecting check returns its own error
MemberResults(checks, failing) ==
    [i \in 1..Len(checks) |-> IF checks[i] \in failing THEN checks[i] ELSE Ok]

\* the checks of a tuple that reject the request: any of them may, unless the
\* rules the user operation violates are given (comp.results, kind "request")
Failings(checks) ==
    IF comp.kind = "request" THEN {comp.results \cap Range(checks)}
    ELSE SUBSET Range(checks)

\* the chain client's answers
Reasons == {"AA23", "AA25"}
SimulateValidationResults ==
    {[pre_op_gas |-> 100, prefund |-> 5, valid_after |-> None],
     [pre_op_gas |-> 150, prefund |-> 6, valid_after |-> Some(3)]}
BlockHashes == {7}

Panic(m) == [kind |-> "Panic", err |-> "", message |-> m]
SanityError(e) == [kind |-> "Sanity", err |-> e, message |-> ""]
SimulationError(e, m) == [kind |-> "Simulation", err |-> e, message |-> m]

\* the positions of a request inside validate_user_operation
ValidatePcs == {"sanity", "prev", "simulate_validation", "get_block",
                "simulate_validation_trace"}

PoolOf(t) == mempool_id(Unwrap(task[t].ep), chain_id)
Pool(t) == mempools[PoolOf(t)]

\* UoPoolService::add, the arms of the match on the validation result
\* (tasks: the tasks as the step found them, the chain client's answer noted)
AddReturnFrom(tasks, t, status, error, calls) ==
    LET h == Hash(Unwrap(task[t].uo), Unwrap(task[t].ep), chain_id)
    IN  IF status = "Ok"
        THEN /\ task' = [tasks EXCEPT ![t].pc = "done", ![t].out = DefaultOutcome,
                             ![t].sim_res = None, ![t].calls = calls,
                             ![t].result = [NoResult EXCEPT !.status = "Response",
                                               !.result = "Added", !.hash = Some(h)]]
             /\ UNCHANGED sanity_check_results
        ELSE /\ task' = [tasks EXCEPT ![t].pc = "done", ![t].out = DefaultOutcome,
                             ![t].sim_res = None, ![t].calls = calls,
                             ![t].result = [NoResult EXCEPT !.status = "Response",
                                               !.result = "NotAdded", !.error = error]]
             /\ sanity_check_results' = sanity_check_results \ {h}

AddReturn(t, status, error, calls) == AddReturnFrom(task, t, status, error, calls)

\* validate_user_operation returns (or the task panics); the result goes to
\* the caller: the library caller keeps it, UoPoolService::add matches on it
ReturnFrom(tasks, t, status, error, out, calls) ==
    IF status = "Panic"
    THEN /\ task' = [tasks EXCEPT ![t].pc = "panicked", ![t].calls = calls,
                         ![t].result = [NoResult EXCEPT !.status = "Panic",
                                           !.message = error.message]]
         /\ UNCHANGED sanity_check_results
    ELSE IF task[t].op = "add"
    THEN AddReturnFrom(tasks, t, status, error, calls)
    ELSE /\ task' = [tasks EXCEPT ![t].pc = "done", ![t].calls = calls,
                         ![t].result = [NoResult EXCEPT !.status = status,
                                           !.error = error, !.out = out]]
         /\ UNCHANGED sanity_check_results

ReturnWith(t, status, error, out, calls) == ReturnFrom(task, t, status, error, out, calls)

Return(t, status, error, out) == ReturnWith(t, status, error, out, task[t].calls)

\* the chain client has answered and validate_user_operation returns
ReturnAnswer(t, answer, status, error, out) ==
    ReturnFrom([task EXCEPT ![t].answer = answer], t, status, error, out, task[t].calls)

\* a library caller invokes validate_user_operation(uo, mempool, reputation, mode)
\* on the validator of entry point ep
CallValidate(t, uo, ep, mode, cfg) ==
    /\ task[t].pc = "idle"
    /\ task' = [task EXCEPT ![t] = [IdleTask EXCEPT !.op = "validate", !.pc = "sanity",
                                       !.uo = Some(uo), !.ep = Some(ep),
                                       !.mode = mode, !.cfg = cfg]]
    /\ UNCHANGED <<mempools, reputations, sanity_check_results, comp, direct>>

\* a validator that runs the sanity tuple whatever the mode
SanityPhaseAlways(t) ==
    /\ task[t].pc = "sanity"
    /\ \E failing \in Failings(Validator(task[t].cfg).sanity_checks) :
          LET c == sanity_check_impls(
                      MemberResults(Validator(task[t].cfg).sanity_checks, failing))
          IN  IF c.res # Ok
              THEN ReturnWith(t, "Err", SanityError(c.res), DefaultOutcome,
                              Append(task[t].calls, "sanity_checks"))
              ELSE /\ task' = [task EXCEPT ![t].pc = "prev",
                                   ![t].calls = Append(@, "sanity_checks")]
                   /\ UNCHANGED sanity_check_results
    /\ UNCHANGED <<mempools, reputations, comp, direct>>

\* validator.rs 292-303: the sanity tuple, when Sanity is in the mode
SanityPhase(t) ==
    /\ task[t].pc = "sanity"
    /\ \/ /\ Sanity \in task[t].mode
          /\ \E failing \in Failings(Validator(task[t].cfg).sanity_checks) :
                LET c == sanity_check_impls(
                            MemberResults(Validator(task[t].cfg).sanity_checks, failing))
                IN  IF c.res # Ok
                    THEN ReturnWith(t, "Err", SanityError(c.res), DefaultOutcome,
                                    Append(task[t].calls, "sanity_checks"))
                    ELSE /\ task' = [task EXCEPT ![t].pc = "prev",
                                         ![t].calls = Append(@, "sanity_checks")]
                         /\ UNCHANGED sanity_check_results
       \/ /\ Sanity \notin task[t].mode
          /\ task' = [task EXCEPT ![t].pc = "prev"]
          /\ UNCHANGED sanity_check_results
    /\ UNCHANGED <<mempools, reputations, comp, direct>>

\* a conversion that reports every failure of the call as unknown
simulate_validation_err_unknown(answer) == SimulationError("UnknownError", "")

\* validator.rs 218-227 and 244-253: the error of a failed call to the entry
\* point, FailedOp keeping its reason
simulate_validation_err(answer) ==
    IF answer.res = "FailedOp" THEN SimulationError("Validation", answer.reason)
    ELSE SimulationError("UnknownError", "")

\* a lookup that records the hash of the user operation under validation
PrevHashOfNew(t) ==
    LET prev == MempoolGetPrevBySender(Pool(t), Unwrap(task[t].uo))
    IN  IF prev = None THEN None
        ELSE Some(Hash(Unwrap(task[t].uo), Unwrap(task[t].ep), chain_id))

\* the out.prev_hash the lookup records
PrevHash(t) ==
    LET prev == MempoolGetPrevBySender(Pool(t), Unwrap(task[t].uo))
    IN  IF prev = None THEN None
        ELSE Some(Hash(Unwrap(prev), Unwrap(task[t].ep), chain_id))

\* a lookup that takes the replaced entry out of the mempool at once
PrevLookupRemoving(t) ==
    /\ task[t].pc = "prev"
    /\ task' = [task EXCEPT ![t].out.prev_hash = PrevHash(t),
                    ![t].calls = @ \o <<"get_prev_by_sender", "simulate_validation">>,
                    ![t].pc = "simulate_validation"]
    /\ mempools' = [mempools EXCEPT ![PoolOf(t)] =
                       IF PrevHash(t) = None THEN @
                       ELSE MempoolDelete(@, Unwrap(PrevHash(t)))]
    /\ UNCHANGED <<reputations, sanity_check_results, comp, direct>>

\* a lookup that counts the sender as seen at once
PrevLookupCounting(t) ==
    /\ task[t].pc = "prev"
    /\ task' = [task EXCEPT ![t].out.prev_hash = PrevHash(t),
                    ![t].calls = @ \o <<"get_prev_by_sender", "simulate_validation">>,
                    ![t].pc = "simulate_validation"]
    /\ reputations' = [reputations EXCEPT ![PoolOf(t)] =
                          [a \in {Unwrap(task[t].uo).sender} |->
                              [ops_seen |-> 1, ops_included |-> 0]]]
    /\ UNCHANGED <<mempools, sanity_check_results, comp, direct>>

\* a validator that calls simulate_validation before it looks the entry up
PrevLookupLate(t) ==
    /\ task[t].pc = "prev"
    /\ task' = [task EXCEPT ![t].out.prev_hash = PrevHash(t),
                    ![t].calls = @ \o <<"simulate_validation", "get_prev_by_sender">>,
                    ![t].pc = "simulate_validation"]
    /\ UNCHANGED <<mempools, reputations, sanity_check_results, comp, direct>>

\* validator.rs 305-309: the replacement lookup, then simulate_validation is called
PrevLookup(t) ==
    /\ task[t].pc = "prev"
    /\ task' = [task EXCEPT ![t].out.prev_hash = PrevHash(t),
                    ![t].calls = @ \o <<"get_prev_by_sender", "simulate_validation">>,
                    ![t].pc = "simulate_validation"]
    /\ UNCHANGED <<mempools, reputations, sanity_check_results, comp, direct>>

\* validator.rs 212-229 and 309-329: simulate_validation answers; the simulation
\* tuple runs when Simulation is in the mode; then the latest block is asked for
SimulateValidationReturn(t) ==
    /\ task[t].pc = "simulate_validation"
    /\ \/ \E reason \in Reasons :
             ReturnAnswer(t, Answer("simulate_validation", "FailedOp", reason), "Err",
                 simulate_validation_err(Answer("simulate_validation", "FailedOp", reason)),
                 DefaultOutcome)
       \/ ReturnAnswer(t, Answer("simulate_validation", "Err", ""), "Err",
              simulate_validation_err(Answer("simulate_validation", "Err", "")), DefaultOutcome)
       \/ \E sim_res \in SimulateValidationResults :
          \E failing \in Failings(Validator(task[t].cfg).simulation_checks) :
             LET c == IF Simulation \in task[t].mode
                      THEN simulation_check_impls(
                              MemberResults(Validator(task[t].cfg).simulation_checks, failing))
                      ELSE unit_check
                 timestamp_ran == \E i \in Range(c.ran) :
                      Validator(task[t].cfg).simulation_checks[i] = "Timestamp"
                 ok == Answer("simulate_validation", "Ok", "")
             IN  IF c.res # Ok
                 THEN ReturnAnswer(t, ok, "Err", SimulationError(c.res, ""),
                                   DefaultOutcome)
                 ELSE /\ task' = [task EXCEPT
                              ![t].answer = ok,
                              ![t].out.valid_after =
                                  IF timestamp_ran THEN sim_res.valid_after ELSE None,
                              ![t].out.pre_fund = sim_res.prefund,
                              ![t].out.verification_gas_limit = sim_res.pre_op_gas,
                              ![t].sim_res = Some(sim_res),
                              ![t].calls = Append(@, "get_block"),
                              ![t].pc = "get_block"]
                      /\ UNCHANGED sanity_check_results
    /\ UNCHANGED <<mempools, reputations, comp, direct>>

\* a block fetch after which the trace is asked for whatever the mode
GetBlockReturnAlwaysTrace(t) ==
    /\ task[t].pc = "get_block"
    /\ \/ ReturnAnswer(t, Answer("get_block", "Err", ""),
                       "Err", SanityError("MiddlewareError"), DefaultOutcome)
       \/ ReturnAnswer(t, Answer("get_block", "NoBlock", ""),
                       "Panic", Panic("block should exist"), DefaultOutcome)
       \/ ReturnAnswer(t, Answer("get_block", "NoHash", ""),
                       "Panic", Panic("block hash should exist"), DefaultOutcome)
       \/ \E h \in BlockHashes :
             /\ task' = [task EXCEPT ![t].out.verified_block = h,
                             ![t].answer = Answer("get_block", "Ok", ""),
                             ![t].calls = Append(@, "simulate_validation_trace"),
                             ![t].pc = "simulate_validation_trace"]
             /\ UNCHANGED sanity_check_results
    /\ UNCHANGED <<mempools, reputations, comp, direct>>

\* validator.rs 326-341: the block fetch answers; with SimulationTrace in the
\* mode simulate_validation_trace is called, otherwise the outcome is returned
GetBlockReturn(t) ==
    /\ task[t].pc = "get_block"
    /\ \/ ReturnAnswer(t, Answer("get_block", "Err", ""),
                       "Err", SanityError("MiddlewareError"), DefaultOutcome)
       \/ ReturnAnswer(t, Answer("get_block", "NoBlock", ""),
                       "Panic", Panic("block should exist"), DefaultOutcome)
       \/ ReturnAnswer(t, Answer("get_block", "NoHash", ""),
                       "Panic", Panic("block hash should exist"), DefaultOutcome)
       \/ \E h \in BlockHashes :
             IF SimulationTrace \in task[t].mode
             THEN /\ task' = [task EXCEPT ![t].out.verified_block = h,
                                  ![t].answer = Answer("get_block", "Ok", ""),
                                  ![t].calls = Append(@, "simulate_validation_trace"),
                                  ![t].pc = "simulate_validation_trace"]
                  /\ UNCHANGED sanity_check_results
             ELSE ReturnAnswer(t, Answer("get_block", "Ok", ""), "Ok", NoError,
                               [task[t].out EXCEPT !.verified_block = h])
    /\ UNCHANGED <<mempools, reputations, comp, direct>>

\* validator.rs 238-255 and 341-365: the trace answers, is parsed, and the
\* trace tuple runs
SimulateValidationTraceReturn(t) ==
    /\ task[t].pc = "simulate_validation_trace"
    /\ \/ \E reason \in Reasons :
             ReturnAnswer(t, Answer("simulate_validation_trace", "FailedOp", reason), "Err",
                 simulate_validation_err(Answer("simulate_validation_trace", "FailedOp", reason)),
                 DefaultOutcome)
       \/ ReturnAnswer(t, Answer("simulate_validation_trace", "Err", ""), "Err",
              simulate_validation_err(Answer("simulate_validation_trace", "Err", "")), DefaultOutcome)
       \/ ReturnAnswer(t, Answer("simulate_validation_trace", "Unparsable", ""),
                       "Err", SimulationError("Validation", "parse"), DefaultOutcome)
       \/ \E failing \in Failings(Validator(task[t].cfg).simulation_trace_checks) :
             LET checks == Validator(task[t].cfg).simulation_trace_checks
                 c == IF Len(checks) = 0 THEN unit_check
                      ELSE simulation_trace_check_impls(MemberResults(checks, failing))
                 code_hashes_ran == \E i \in Range(c.ran) : checks[i] = "CodeHashes"
                 ok == Answer("simulate_validation_trace", "Ok", "")
             IN  IF c.res # Ok
                 THEN ReturnAnswer(t, ok, "Err", SimulationError(c.res, ""),
                                   DefaultOutcome)
                 ELSE ReturnAnswer(t, ok, "Ok", NoError,
                             [task[t].out EXCEPT
                                 !.code_hashes = IF code_hashes_ran
                                                 THEN Some("code_hashes") ELSE None,
                                 !.storage_map = Some("storage_map")])
    /\ UNCHANGED <<mempools, reputations, comp, direct>>

\* one step of a request inside validate_user_operation
ValidateStep(t) ==
    \/ SanityPhase(t)
    \/ PrevLookup(t)
    \/ SimulateValidationReturn(t)
    \/ GetBlockReturn(t)
    \/ SimulateValidationTraceReturn(t)

----------------------------------------------------------------------------
(* The other holders of a mempool (the pool is shared behind an Arc):      *)
(* entries come and go while requests are in flight                        *)

ExternalAdd(id, uo) ==
    /\ mempools' = [mempools EXCEPT ![id] = MempoolAdd(@, uo, Hash(uo, id[1], id[2])).mp]
    /\ UNCHANGED <<reputations, sanity_check_results, task, comp, direct>>

ExternalRemove(id, uo) ==
    /\ mempools' = [mempools EXCEPT ![id] = MempoolRemove(@, Hash(uo, id[1], id[2])).mp]
    /\ UNCHANGED <<reputations, sanity_check_results, task, comp, direct>>

----------------------------------------------------------------------------
(* SpecValidate: one validator request at a time against a changing mempool *)

InitValidate ==
    /\ InitPool
    /\ task = [t \in Tasks |-> IdleTask]
    /\ comp = CompIdle

NextValidate ==
    \/ \E uo \in RequestUos, mode \in Modes, cfg \in Configs :
          CallValidate("t1", uo, "ep1", mode, cfg)
    \/ ValidateStep("t1")
    \/ \E uo \in RequestUos : ExternalAdd(mempool_id("ep1", chain_id), uo)
    \/ \E uo \in RequestUos : ExternalRemove(mempool_id("ep1", chain_id), uo)

SpecValidate == InitValidate /\ [][NextValidate]_vars

ChainCalls == {"simulate_validation", "get_block", "simulate_validation_trace"}
SanityRan(t) == "sanity_checks" \in Range(task[t].calls)
SanityCheckNames == Range(new_canonical.sanity_checks)

\* C1: validate runs the sanity tuple iff Sanity is in the mode, and before any
\* chain simulation call; when the tuple fails the request ends with a Sanity
\* error and simulate_validation, get_block and simulate_validation_trace are
\* never called
C1_SanityFirst ==
    \A t \in Tasks :
        (task[t].op = "validate" /\ task[t].pc \notin {"idle", "sanity"}) =>
            /\ SanityRan(t) <=> Sanity \in task[t].mode
            /\ \A i \in 1..Len(task[t].calls) :
                  task[t].calls[i] = "sanity_checks" => i = 1
            /\ (task[t].pc = "done" /\ task[t].calls = <<"sanity_checks">>) =>
                  /\ task[t].result.status = "Err"
                  /\ task[t].result.error.kind = "Sanity"
                  /\ task[t].result.error.err \in SanityCheckNames
            /\ (task[t].pc = "done" /\ task[t].result.error.err \in SanityCheckNames) =>
                  /\ task[t].result.error.kind = "Sanity"
                  /\ Range(task[t].calls) \cap ChainCalls = {}

\* a request with Sanity in its mode that the Paymaster check rejected
C1_Witness ==
    \E t \in Tasks :
        /\ task[t].op = "validate" /\ task[t].pc = "done"
        /\ Sanity \in task[t].mode
        /\ task[t].result.error = SanityError("Paymaster")
        /\ task[t].calls = <<"sanity_checks">>

\* C8: no step of validate changes the mempool or the reputation it is given,
\* whether it goes on, returns an outcome or returns an error
C8_ValidateFrame ==
    [][\A t \in Tasks :
          (task'[t].op = "validate" /\ task'[t] # task[t]) =>
              (mempools' = mempools /\ reputations' = reputations)]_vars

\* a request rejected for a forbidden opcode while the mempool held the entry
\* it would have replaced
C8_Witness ==
    \E t \in Tasks :
        /\ task[t].op = "validate" /\ task[t].pc = "done"
        /\ task[t].result.error = SimulationError("Opcodes", "")
        /\ task[t].out.prev_hash # None
        /\ Unwrap(task[t].out.prev_hash) \in Stored(Pool(t))


\* the number of times a call was made
Count(calls, c) == Cardinality({i \in 1..Len(calls) : calls[i] = c})

\* the request went past the sanity phase: the tuple was skipped or passed
PastSanity(t) ==
    /\ task[t].pc \notin {"idle", "sanity", "prev"}
    /\ ~(task[t].pc = "done" /\ task[t].result.error.kind = "Sanity"
             /\ task[t].result.error.err \in SanityCheckNames)

\* C21: simulate_validation is called exactly once in every validation that
\* gets past the sanity phase, whatever the mode; a FailedOp answer ends the
\* request with Simulation(Validation) carrying the same reason, any other
\* failure with Simulation(Unknown), the block and the trace never asked for
C21_SimulateValidationOnce ==
    \A t \in Tasks :
        task[t].op = "validate" =>
            /\ Count(task[t].calls, "simulate_validation")
                   = (IF PastSanity(t) THEN 1 ELSE 0)
            /\ (task[t].answer.call = "simulate_validation"
                    /\ task[t].answer.res \in {"FailedOp", "Err"}) =>
                   /\ task[t].pc = "done" /\ task[t].result.status = "Err"
                   /\ task[t].result.error =
                          (IF task[t].answer.res = "FailedOp"
                           THEN SimulationError("Validation", task[t].answer.reason)
                           ELSE SimulationError("UnknownError", ""))
                   /\ "get_block" \notin Range(task[t].calls)
                   /\ "simulate_validation_trace" \notin Range(task[t].calls)

\* a request with the empty mode whose simulate_validation answered FailedOp
C21_Witness ==
    \E t \in Tasks :
        /\ task[t].op = "validate" /\ task[t].pc = "done" /\ task[t].mode = {}
        /\ task[t].answer = Answer("simulate_validation", "FailedOp", "AA25")
        /\ task[t].result.error = SimulationError("Validation", "AA25")
        /\ task[t].calls = <<"get_prev_by_sender", "simulate_validation">>


\* the step calls simulate_validation_trace
InvokesTrace(t) ==
    Count(task'[t].calls, "simulate_validation_trace")
        > Count(task[t].calls, "simulate_validation_trace")

\* the step is the latest block coming back with its hash: every earlier step
\* of the request has succeeded
BlockFetched(t) ==
    /\ task[t].pc = "get_block"
    /\ task'[t].answer = Answer("get_block", "Ok", "")

\* the step returns an Outcome
ReturnsOutcome(t) ==
    /\ task[t].pc # "done" /\ task'[t].pc = "done"
    /\ task'[t].result.status = "Ok"

\* what C22 says of every configuration
C22_TraceAsStated ==
    [][\A t \in Tasks :
          task'[t].op = "validate" =>
              /\ InvokesTrace(t) <=>
                     (BlockFetched(t) /\ SimulationTrace \in task[t].mode)
              /\ ReturnsOutcome(t) =>
                     /\ task'[t].result.out.storage_map # None
                            <=> SimulationTrace \in task[t].mode
                     /\ task'[t].result.out.code_hashes # None
                            <=> SimulationTrace \in task[t].mode]_vars

\* C22: simulate_validation_trace is called iff SimulationTrace is in the mode
\* and every earlier step succeeded; an Outcome holds storage_map iff
\* SimulationTrace is in the mode, and code_hashes iff moreover the validator
\* was built by new_canonical (that of new_canonical_unsafe never holds them)
C22_Trace ==
    [][\A t \in Tasks :
          task'[t].op = "validate" =>
              /\ InvokesTrace(t) <=>
                     (BlockFetched(t) /\ SimulationTrace \in task[t].mode)
              /\ ReturnsOutcome(t) =>
                     /\ task'[t].result.out.storage_map # None
                            <=> SimulationTrace \in task[t].mode
                     /\ task'[t].result.out.code_hashes # None
                            <=> (SimulationTrace \in task[t].mode
                                    /\ task[t].cfg = "canonical")]_vars

\* an Outcome of the validator of new_canonical_unsafe with the full mode:
\* the trace was asked for, storage_map is recorded, code_hashes is not
C22_Witness ==
    \E t \in Tasks :
        /\ task[t].op = "validate" /\ task[t].pc = "done" /\ task[t].cfg = "unsafe"
        /\ task[t].mode = {Sanity, Simulation, SimulationTrace}
        /\ task[t].result.status = "Ok"
        /\ "simulate_validation_trace" \in Range(task[t].calls)
        /\ task[t].result.out.storage_map # None
        /\ task[t].result.out.code_hashes = None


\* the hashes, under the entry point and chain id of the validator, of the
\* entries the pool holds for the (sender, nonce) of the request
HeldHashes(t) ==
    {Hash(o, Unwrap(task[t].ep), chain_id) :
        o \in {e \in MempoolGetAll(Pool(t)) :
                  /\ e.sender = Unwrap(task[t].uo).sender
                  /\ e.nonce = Unwrap(task[t].uo).nonce}}

\* C23: the lookup is made once the sanity phase is over, in every mode; it
\* records the hash of the entry the pool then holds for the (sender, nonce)
\* of the request, nothing when there is none, and the Outcome returns what
\* the lookup recorded
C23_PrevHash ==
    [][\A t \in Tasks :
          (task'[t].op = "validate" /\ task'[t] # task[t]) =>
              /\ task[t].pc = "prev" =>
                     /\ task'[t].out.prev_hash = HeldHashes(t)
                     /\ Count(task'[t].calls, "get_prev_by_sender") = 1
              /\ (task[t].pc \in {"simulate_validation", "get_block",
                                  "simulate_validation_trace"}
                      /\ task'[t].pc \notin {"done", "panicked"}) =>
                     task'[t].out.prev_hash = task[t].out.prev_hash
              /\ ReturnsOutcome(t) =>
                     /\ task'[t].result.out.prev_hash = task[t].out.prev_hash
                     /\ Count(task'[t].calls, "get_prev_by_sender") = 1]_vars

\* an Outcome, Sanity not in the mode, whose prev_hash is the hash of the
\* entry the pool held, another user operation than the one validated
C23_Witness ==
    \E t \in Tasks :
        /\ task[t].op = "validate" /\ task[t].pc = "done"
        /\ task[t].result.status = "Ok" /\ Sanity \notin task[t].mode
        /\ task[t].uo = Some(UoB)
        /\ task[t].result.out.prev_hash = Some(Hash(UoA, "ep1", chain_id))


\* what a validation with the full mode does, in order
FullSequence ==
    <<"sanity_checks", "get_prev_by_sender", "simulate_validation", "get_block",
      "simulate_validation_trace">>
IsPrefix(a, b) == Len(a) <= Len(b) /\ a = SubSeq(b, 1, Len(a))

\* C25: with the full mode the lookup comes first, then simulate_validation,
\* then the block fetch, then simulate_validation_trace, none of them twice;
\* an Outcome is returned only after all of them
C25_SuspensionOrder ==
    \A t \in Tasks :
        (task[t].op = "validate"
             /\ task[t].mode = {Sanity, Simulation, SimulationTrace}) =>
            /\ IsPrefix(task[t].calls, FullSequence)
            /\ (task[t].pc = "done" /\ task[t].result.status = "Ok") =>
                   task[t].calls = FullSequence

\* an Outcome of a validation with the full mode
C25_Witness ==
    \E t \in Tasks :
        /\ task[t].op = "validate" /\ task[t].pc = "done"
        /\ task[t].mode = {Sanity, Simulation, SimulationTrace}
        /\ task[t].result.status = "Ok"
        /\ task[t].calls = FullSequence

\* the request ended on a failure of the simulation layer: the answer of
\* simulate_validation or simulate_validation_trace was not usable
SimulationLayerFailed(t) ==
    /\ task[t].pc = "done" /\ task[t].result.status = "Err"
    /\ task[t].answer.call \in {"simulate_validation", "simulate_validation_trace"}
    /\ task[t].answer.res # "Ok"

\* C27: a request ends with Simulation(Validation) only when the EntryPoint
\* answered simulate_validation or simulate_validation_trace with FailedOp;
\* every other failure of the simulation layer, a transport error or a trace
\* that cannot be parsed, ends it with Simulation(Unknown)
C27_ValidationOnlyOnFailedOp ==
    \A t \in Tasks :
        (task[t].op = "validate" /\ SimulationLayerFailed(t)) =>
            /\ task[t].result.error.kind = "Simulation"
            /\ task[t].result.error.err = "Validation" <=> task[t].answer.res = "FailedOp"
            /\ task[t].result.error.err = "UnknownError" <=> task[t].answer.res # "FailedOp"

\* C28: a validation whose mode has no Sanity never ends with a Sanity
\* error, whatever the chain client answers
C28_NoSanityErrorWithoutSanity ==
    \A t \in Tasks :
        (task[t].op = "validate" /\ task[t].pc \in {"done", "panicked"}
             /\ Sanity \notin task[t].mode) =>
            task[t].result.error.kind # "Sanity"

\* C29: validate always ends by returning an Outcome or a ValidationError,
\* the task never aborted, also when the block or its hash is missing
C29_NeverAborts ==
    \A t \in Tasks :
        task[t].op = "validate" =>
            /\ task[t].pc # "panicked"
            /\ task[t].pc = "done" => task[t].result.status \in {"Ok", "Err"}

----------------------------------------------------------------------------
(* UoPoolService (src/uopool/services/uopool.rs): the gRPC handlers *)

\* the validation `add' runs: the canonical validator with the full mode set
ServiceValidatorMode == {Sanity, Simulation, SimulationTrace}
ServiceValidatorConfig == "canonical"

\* a reputation instance: Address -> [ops_seen, ops_included], absent when unknown
OpsSeen(rep, a) == IF a \in DOMAIN rep THEN rep[a].ops_seen ELSE 0

\* Reputation::set(list): the listed entries are stored under their address
ReputationSet(rep, list) ==
    [a \in DOMAIN rep \cup {e.address : e \in Range(list)} |->
        IF \E e \in Range(list) : e.address = a
        THEN LET e == CHOOSE e \in Range(list) : e.address = a
             IN  [ops_seen |-> e.ops_seen, ops_included |-> e.ops_included]
        ELSE rep[a]]

\* Reputation::get_all()
ReputationGetAll(rep) ==
    {[address |-> a, ops_seen |-> rep[a].ops_seen, ops_included |-> rep[a].ops_included] :
        a \in DOMAIN rep}

Respond(t, r) ==
    task' = [task EXCEPT ![t].pc = "done", ![t].result = r]

Status(status, message) == [NoResult EXCEPT !.status = status, !.message = message]

\* add that validates without asking whether the entry point is supported
AddUnchecked(t, uo, ep, bad) ==
    /\ task[t].pc = "idle"
    /\ IF uo = None \/ ep = None
       THEN task' = [task EXCEPT ![t] = [IdleTask EXCEPT !.op = "add", !.pc = "done",
                        !.uo = uo, !.ep = ep,
                        !.result = Status("InvalidArgument", "missing user operation")]]
       ELSE IF bad = "uo"
       THEN task' = [task EXCEPT ![t] = [IdleTask EXCEPT !.op = "add", !.pc = "done",
                        !.uo = uo, !.ep = ep,
                        !.result = Status("InvalidArgument", "invalid user operation")]]
       ELSE IF bad = "ep"
       THEN task' = [task EXCEPT ![t] = [IdleTask EXCEPT !.op = "add", !.pc = "done",
                        !.uo = uo, !.ep = ep,
                        !.result = Status("InvalidArgument", "invalid entry point")]]
       ELSE task' = [task EXCEPT ![t] = [IdleTask EXCEPT !.op = "add", !.pc = "sanity",
                        !.uo = uo, !.ep = ep,
                        !.mode = ServiceValidatorMode, !.cfg = ServiceValidatorConfig]]
    /\ UNCHANGED <<mempools, reputations, sanity_check_results, comp, direct>>

\* uopool.rs 78-110: add up to the validation; uo and ep are the request's
\* optional fields, bad names the field whose conversion fails
Add(t, uo, ep, bad) ==
    /\ task[t].pc = "idle"
    /\ IF uo = None \/ ep = None
       THEN task' = [task EXCEPT ![t] = [IdleTask EXCEPT !.op = "add", !.pc = "done",
                        !.uo = uo, !.ep = ep,
                        !.result = Status("InvalidArgument", "missing user operation")]]
       ELSE IF bad = "uo"
       THEN task' = [task EXCEPT ![t] = [IdleTask EXCEPT !.op = "add", !.pc = "done",
                        !.uo = uo, !.ep = ep,
                        !.result = Status("InvalidArgument", "invalid user operation")]]
       ELSE IF bad = "ep"
       THEN task' = [task EXCEPT ![t] = [IdleTask EXCEPT !.op = "add", !.pc = "done",
                        !.uo = uo, !.ep = ep,
                        !.result = Status("InvalidArgument", "invalid entry point")]]
       ELSE IF mempool_id(Unwrap(ep), chain_id) \notin DOMAIN entry_points
       THEN task' = [task EXCEPT ![t] = [IdleTask EXCEPT !.op = "add", !.pc = "done",
                        !.uo = uo, !.ep = ep,
                        !.result = Status("InvalidArgument", "entry point not supported")]]
       ELSE task' = [task EXCEPT ![t] = [IdleTask EXCEPT !.op = "add", !.pc = "sanity",
                        !.uo = uo, !.ep = ep,
                        !.mode = ServiceValidatorMode, !.cfg = ServiceValidatorConfig]]
    /\ UNCHANGED <<mempools, reputations, sanity_check_results, comp, direct>>

\* uopool.rs 139-144: remove ignores its request and answers unimplemented
Remove(t, h) ==
    /\ task[t].pc = "idle"
    /\ task' = [task EXCEPT ![t] = [IdleTask EXCEPT !.op = "remove", !.pc = "done",
                                       !.hash = Some(h),
                                       !.result = Status("Unimplemented", "todo")]]
    /\ UNCHANGED <<mempools, reputations, sanity_check_results, comp, direct>>

\* uopool.rs 146-154
GetChainId(t) ==
    /\ task[t].pc = "idle"
    /\ task' = [task EXCEPT ![t] = [IdleTask EXCEPT !.op = "get_chain_id", !.pc = "done",
                   !.result = [NoResult EXCEPT !.status = "Response",
                                  !.result = "GotChainId", !.chain_id = chain_id]]]
    /\ UNCHANGED <<mempools, reputations, sanity_check_results, comp, direct>>

\* an answer that lists every entry point the chain knows
GetSupportedEntryPointsKnown(t) ==
    /\ task[t].pc = "idle"
    /\ task' = [task EXCEPT ![t] = [IdleTask EXCEPT
                   !.op = "get_supported_entry_points", !.pc = "done",
                   !.result = [NoResult EXCEPT !.status = "Response",
                                  !.result = "GotSupportedEntryPoints",
                                  !.eps = EntryPoints]]]
    /\ UNCHANGED <<mempools, reputations, sanity_check_results, comp, direct>>

\* uopool.rs 156-168: the addresses of the configured EntryPoint values
GetSupportedEntryPoints(t) ==
    /\ task[t].pc = "idle"
    /\ task' = [task EXCEPT ![t] = [IdleTask EXCEPT
                   !.op = "get_supported_entry_points", !.pc = "done",
                   !.result = [NoResult EXCEPT !.status = "Response",
                                  !.result = "GotSupportedEntryPoints",
                                  !.eps = {entry_points[id] : id \in DOMAIN entry_points}]]]
    /\ UNCHANGED <<mempools, reputations, sanity_check_results, comp, direct>>

\* Overhead::default().calculate_pre_verification_gas(uo): a function of the uo
PreVerificationGas(uo) == <<"overhead", uo>>
GasEstimates == {30}

\* uopool.rs 170-200: estimate_user_operation_gas up to the simulate_validation call
EstimateUserOperationGas(t, uo, ep, bad) ==
    /\ task[t].pc = "idle"
    /\ IF uo = None \/ ep = None
       THEN task' = [task EXCEPT ![t] = [IdleTask EXCEPT !.op = "estimate", !.pc = "done",
                        !.uo = uo, !.ep = ep,
                        !.result = Status("InvalidArgument", "missing user operation")]]
       ELSE IF bad = "uo"
       THEN task' = [task EXCEPT ![t] = [IdleTask EXCEPT !.op = "estimate", !.pc = "done",
                        !.uo = uo, !.ep = ep,
                        !.result = Status("InvalidArgument", "invalid user operation")]]
       ELSE IF bad = "ep"
       THEN task' = [task EXCEPT ![t] = [IdleTask EXCEPT !.op = "estimate", !.pc = "done",
                        !.uo = uo, !.ep = ep,
                        !.result = Status("InvalidArgument", "invalid entry point")]]
       ELSE IF mempool_id(Unwrap(ep), chain_id) \notin DOMAIN entry_points
       THEN task' = [task EXCEPT ![t] = [IdleTask EXCEPT !.op = "estimate", !.pc = "done",
                        !.uo = uo, !.ep = ep,
                        !.result = Status("InvalidArgument", "entry point not supported")]]
       ELSE task' = [task EXCEPT ![t] = [IdleTask EXCEPT !.op = "estimate",
                        !.pc = "estimate_simulate", !.uo = uo, !.ep = ep,
                        !.calls = <<"simulate_validation">>]]
    /\ UNCHANGED <<mempools, reputations, sanity_check_results, comp, direct>>

\* uopool.rs 197-222: simulate_validation answers; estimate_gas is called
EstimateSimulateReturn(t) ==
    /\ task[t].pc = "estimate_simulate"
    /\ \/ Respond(t, Status("Internal", "error estimating user operation gas"))
       \/ \E sim_res \in SimulateValidationResults :
             task' = [task EXCEPT ![t].pc = "estimate_gas", ![t].sim_res = Some(sim_res),
                          ![t].calls = Append(@, "estimate_gas")]
    /\ UNCHANGED <<mempools, reputations, sanity_check_results, comp, direct>>

\* uopool.rs 211-232: estimate_gas answers
EstimateGasReturn(t) ==
    /\ task[t].pc = "estimate_gas"
    /\ \/ Respond(t, Status("Internal", "error estimating user operation gas"))
       \/ \E call_gas_limit \in GasEstimates :
             Respond(t, [NoResult EXCEPT !.status = "Response", !.result = "Estimated",
                 !.est = Some([pre_verification_gas |->
                                   PreVerificationGas(Unwrap(task[t].uo)),
                               verification_gas_limit |->
                                   Unwrap(task[t].sim_res).pre_op_gas,
                               call_gas_limit |-> call_gas_limit])])
    /\ UNCHANGED <<mempools, reputations, sanity_check_results, comp, direct>>

\* a clear that leaves the mempools as they are
ClearMempoolsSkipped(t) ==
    /\ task[t].pc = "idle"
    /\ task' = [task EXCEPT ![t] = [IdleTask EXCEPT !.op = "clear",
                                       !.pc = "clear_reputations"]]
    /\ UNCHANGED <<mempools, reputations, sanity_check_results, comp, direct>>

\* uopool.rs 246-248: clear, under the mempools write guard
ClearMempools(t) ==
    /\ task[t].pc = "idle"
    /\ mempools' = [id \in DOMAIN mempools |-> MempoolClear(mempools[id])]
    /\ task' = [task EXCEPT ![t] = [IdleTask EXCEPT !.op = "clear",
                                       !.pc = "clear_reputations"]]
    /\ UNCHANGED <<reputations, sanity_check_results, comp, direct>>

\* uopool.rs 250-256: clear, under the reputations write guard
ClearReputations(t) ==
    /\ task[t].pc = "clear_reputations"
    /\ reputations' = [id \in DOMAIN reputations |-> EmptyFcn]
    /\ Respond(t, [NoResult EXCEPT !.status = "Response", !.result = "Cleared"])
    /\ UNCHANGED <<mempools, sanity_check_results, comp, direct>>

\* uopool.rs 260-291
GetAll(t, ep) ==
    /\ task[t].pc = "idle"
    /\ IF ep = None
       THEN task' = [task EXCEPT ![t] = [IdleTask EXCEPT !.op = "get_all", !.pc = "done",
                        !.result = Status("InvalidArgument", "missing entry point")]]
       ELSE IF mempool_id(Unwrap(ep), chain_id) \in DOMAIN mempools
       THEN task' = [task EXCEPT ![t] = [IdleTask EXCEPT !.op = "get_all", !.pc = "done",
                        !.ep = ep,
                        !.result = [NoResult EXCEPT !.status = "Response",
                            !.result = "GotAll",
                            !.uos = MempoolGetAll(mempools[mempool_id(Unwrap(ep), chain_id)])]]]
       ELSE task' = [task EXCEPT ![t] = [IdleTask EXCEPT !.op = "get_all", !.pc = "done",
                        !.ep = ep,
                        !.result = [NoResult EXCEPT !.status = "Response",
                                       !.result = "NotGotAll"]]]
    /\ UNCHANGED <<mempools, reputations, sanity_check_results, comp, direct>>

ReputationLists ==
    {<<[address |-> "s1", ops_seen |-> 5, ops_included |-> 2]>>,
     <<[address |-> "pm", ops_seen |-> 1, ops_included |-> 0]>>}

\* uopool.rs 294-321
SetReputation(t, ep, list) ==
    /\ task[t].pc = "idle"
    /\ IF ep = None
       THEN /\ task' = [task EXCEPT ![t] = [IdleTask EXCEPT !.op = "set_reputation",
                           !.pc = "done",
                           !.result = Status("InvalidArgument", "missing entry point")]]
            /\ UNCHANGED reputations
       ELSE IF mempool_id(Unwrap(ep), chain_id) \in DOMAIN reputations
       THEN /\ reputations' = [reputations EXCEPT ![mempool_id(Unwrap(ep), chain_id)] =
                                  ReputationSet(@, list)]
            /\ task' = [task EXCEPT ![t] = [IdleTask EXCEPT !.op = "set_reputation",
                           !.pc = "done", !.ep = ep,
                           !.result = [NoResult EXCEPT !.status = "Response",
                                          !.result = "SetReputation"]]]
       ELSE /\ task' = [task EXCEPT ![t] = [IdleTask EXCEPT !.op = "set_reputation",
                           !.pc = "done", !.ep = ep,
                           !.result = [NoResult EXCEPT !.status = "Response",
                                          !.result = "NotSetReputation"]]]
            /\ UNCHANGED reputations
    /\ UNCHANGED <<mempools, sanity_check_results, comp, direct>>

\* uopool.rs 324-351
GetAllReputation(t, ep) ==
    /\ task[t].pc = "idle"
    /\ IF ep = None
       THEN task' = [task EXCEPT ![t] = [IdleTask EXCEPT !.op = "get_all_reputation",
                        !.pc = "done",
                        !.result = Status("InvalidArgument", "missing entry point")]]
       ELSE IF mempool_id(Unwrap(ep), chain_id) \in DOMAIN reputations
       THEN task' = [task EXCEPT ![t] = [IdleTask EXCEPT !.op = "get_all_reputation",
                        !.pc = "done", !.ep = ep,
                        !.result = [NoResult EXCEPT !.status = "Response",
                            !.result = "GotAllReputation",
                            !.res = ReputationGetAll(
                                       reputations[mempool_id(Unwrap(ep), chain_id)])]]]
       ELSE task' = [task EXCEPT ![t] = [IdleTask EXCEPT !.op = "get_all_reputation",
                        !.pc = "done", !.ep = ep,
                        !.result = [NoResult EXCEPT !.status = "Response",
                                       !.result = "NotGotAllReputation"]]]
    /\ UNCHANGED <<mempools, reputations, sanity_check_results, comp, direct>>

\* the answer has been sent; the task serves the next request
NextRequest(t) ==
    /\ task[t].pc \in {"done", "panicked"}
    /\ task' = [task EXCEPT ![t] = IdleTask]
    /\ UNCHANGED <<mempools, reputations, sanity_check_results, comp, direct>>

----------------------------------------------------------------------------
(* Spec: the service serving one request at a time, every handler, while   *)
(* the other holders of the ep1 pool add and remove entries                *)

\* the request fields drawn
RequestUoFields == {None} \cup {Some(uo) : uo \in RequestUos}
RequestEpFields == {None} \cup {Some(ep) : ep \in EntryPoints}
BadFields == {"", "uo", "ep"}

Init ==
    /\ InitPool
    /\ task = [t \in Tasks |-> IdleTask]
    /\ comp = CompIdle

Next ==
    \/ \E uo \in RequestUoFields, ep \in RequestEpFields, bad \in BadFields :
          Add("t1", uo, ep, bad)
    \/ task["t1"].op = "add" /\ ValidateStep("t1")
    \/ \E uo \in RequestUos, ep \in EntryPoints : Remove("t1", Hash(uo, ep, chain_id))
    \/ GetChainId("t1")
    \/ GetSupportedEntryPoints("t1")
    \/ \E uo \in RequestUoFields, ep \in RequestEpFields, bad \in BadFields :
          EstimateUserOperationGas("t1", uo, ep, bad)
    \/ EstimateSimulateReturn("t1")
    \/ EstimateGasReturn("t1")
    \/ ClearMempools("t1")
    \/ ClearReputations("t1")
    \/ \E ep \in RequestEpFields : GetAll("t1", ep)
    \/ \E ep \in RequestEpFields, list \in ReputationLists : SetReputation("t1", ep, list)
    \/ \E ep \in RequestEpFields : GetAllReputation("t1", ep)
    \/ \E uo \in RequestUos : ExternalAdd(mempool_id("ep1", chain_id), uo)
    \/ \E uo \in RequestUos : ExternalRemove(mempool_id("ep1", chain_id), uo)
    \/ NextRequest("t1")

Spec == Init /\ [][Next]_vars

----------------------------------------------------------------------------
(* SpecConcurrent: two add requests for the same (sender, nonce) in flight *)
(* at once on entry point ep1                                              *)

NextConcurrent ==
    \/ \E t \in Tasks, uo \in {UoA, UoB} :
          /\ \A u \in Tasks : task[u].pc # "done"     \* both arrive before one is answered
          /\ Add(t, Some(uo), Some("ep1"), "")
    \/ \E t \in Tasks : task[t].op = "add" /\ ValidateStep(t)

SpecConcurrent == Init /\ [][NextConcurrent]_vars

----------------------------------------------------------------------------
(* Claims about the service *)

\* the step with which add answers task t
AddAnswers(t) == task'[t].op = "add" /\ task[t].pc # "done" /\ task'[t].pc = "done"
Added(t) == task[t].op = "add" /\ task[t].pc = "done" /\ task[t].result.result = "Added"
SameSenderNonce(u1, u2) == u1.sender = u2.sender /\ u1.nonce = u2.nonce

\* C3: when add answers Added with the hash, the mempool of the entry point
\* holds an entry for the user operation: get_all includes it, and the mempool
\* grew by one unless the operation replaced an entry
C3_AddedIsStored ==
    [][\A t \in Tasks :
          (AddAnswers(t) /\ task'[t].result.result = "Added") =>
              LET uo == Unwrap(task[t].uo)
                  id == PoolOf(t)
                  h == Hash(uo, Unwrap(task[t].ep), chain_id)
              IN  /\ task'[t].result.hash = Some(h)
                  /\ h \in Stored(mempools'[id])
                  /\ uo \in MempoolGetAll(mempools'[id])
                  /\ \/ Cardinality(Stored(mempools'[id]))
                           = Cardinality(Stored(mempools[id])) + 1
                     \/ /\ MempoolGetPrevBySender(mempools[id], uo) # None
                        /\ Cardinality(Stored(mempools'[id]))
                              = Cardinality(Stored(mempools[id]))]_vars

\* C4: when add answers Added, ops_seen of the sender, the factory and the
\* paymaster of the user operation is one higher than before; an add that
\* fails leaves every ops_seen as it was
C4_OpsSeenIncremented ==
    [][\A t \in Tasks :
          AddAnswers(t) =>
              IF task'[t].result.result = "Added"
              THEN \A a \in Entities(Unwrap(task[t].uo)) :
                      OpsSeen(reputations'[PoolOf(t)], a)
                          = OpsSeen(reputations[PoolOf(t)], a) + 1
              ELSE reputations' = reputations]_vars

Unsupported(ep) == mempool_id(ep, chain_id) \notin DOMAIN entry_points

\* C5: add and estimate_gas answer a request for an unsupported entry point
\* with an error at once: no validation step, no sanity check and no chain call
\* is made and the mempools, the reputations and the sanity results stay as
\* they were
C5_UnsupportedRejected ==
    [][\A t \in Tasks :
          (/\ task[t].pc = "idle"
           /\ task'[t].op \in {"add", "estimate"}
           /\ task'[t].ep # None
           /\ Unsupported(Unwrap(task'[t].ep))) =>
              /\ task'[t].pc = "done"
              /\ task'[t].result.status = "InvalidArgument"
              /\ task'[t].calls = <<>>
              /\ mempools' = mempools
              /\ reputations' = reputations
              /\ sanity_check_results' = sanity_check_results]_vars

\* an add turned away for its entry point while the ep1 pool held an entry
C5_Witness ==
    \E t \in Tasks :
        /\ task[t].op = "add" /\ task[t].pc = "done"
        /\ task[t].ep = Some("ep3") /\ task[t].uo = Some(UoA)
        /\ task[t].result = Status("InvalidArgument", "entry point not supported")
        /\ Stored(mempools[mempool_id("ep1", chain_id)]) # {}

Resolves(mps, h) ==
    \E id \in DOMAIN mps :
        \/ h \in Stored(mps[id])
        \/ \E a \in Address : h \in mps[id].sender_to_hashes[a] \cup mps[id].entity_to_hashes[a]

\* C6: remove of a stored hash answers ok and the hash then resolves neither
\* in the primary store nor in an index; remove of an unknown hash answers
\* not-found and changes nothing
C6_RemoveRemoves ==
    [][\A t \in Tasks :
          (task[t].pc = "idle" /\ task'[t].op = "remove") =>
              LET h == Unwrap(task'[t].hash)
              IN  IF Resolves(mempools, h)
                  THEN /\ task'[t].result.status = "Response"
                       /\ ~Resolves(mempools', h)
                  ELSE /\ task'[t].result.status = "NotFound"
                       /\ mempools' = mempools]_vars

\* C7: two adds for the same (sender, nonce) in flight together, neither
\* turned down by a check or by the chain: exactly one is answered Added and the
\* mempool ends with exactly one entry for that (sender, nonce)
C7_ExactlyOneAdmitted ==
    (/\ \A t \in Tasks : task[t].op = "add" /\ task[t].pc = "done"
     /\ \A t \in Tasks : task[t].result.error = NoError) =>
        /\ Cardinality({t \in Tasks : Added(t)}) = 1
        /\ Cardinality({h \in Stored(mempools[mempool_id("ep1", chain_id)]) :
               SameSenderNonce(mempools[mempool_id("ep1", chain_id)].uo_by_hash[h], UoA)}) = 1

----------------------------------------------------------------------------
(* SpecComposite: a check tuple applied to every vector of member results *)

CheckResults == {Ok} \cup CheckErrors
ResultVectors(lo) == UNION {[1..n -> CheckResults] : n \in lo..MaxChecks}

InitComposite ==
    /\ InitPool
    /\ task = [t \in Tasks |-> IdleTask]
    /\ \/ \E v \in ResultVectors(0) :
            comp = [CompIdle EXCEPT !.kind = "sanity", !.results = v, !.state = "input"]
       \/ \E v \in ResultVectors(1) :
            comp = [CompIdle EXCEPT !.kind = "simulation", !.results = v, !.state = "input"]
       \/ \E v \in ResultVectors(0) :
            comp = [CompIdle EXCEPT !.kind = "trace", !.results = v, !.state = "input"]

CompDone(r) ==
    /\ comp' = [comp EXCEPT !.state = "done", !.res = r.res, !.ran = r.ran]
    /\ UNCHANGED <<mempools, reputations, sanity_check_results, task, direct>>

ApplySanityTuple ==
    /\ comp.state = "input" /\ comp.kind = "sanity" /\ Len(comp.results) > 0
    /\ CompDone(sanity_check_impls(comp.results))

ApplySimulationTuple ==
    /\ comp.state = "input" /\ comp.kind = "simulation"
    /\ CompDone(simulation_check_impls(comp.results))

ApplyTraceTuple ==
    /\ comp.state = "input" /\ comp.kind = "trace" /\ Len(comp.results) > 0
    /\ CompDone(simulation_trace_check_impls(comp.results))

ApplyUnit ==
    /\ comp.state = "input" /\ comp.kind \in {"sanity", "trace"} /\ Len(comp.results) = 0
    /\ CompDone(unit_check)

NextComposite == ApplySanityTuple \/ ApplySimulationTuple \/ ApplyTraceTuple \/ ApplyUnit

SpecComposite == InitComposite /\ [][NextComposite]_vars

Failing(results) == {i \in 1..Len(results) : results[i] # Ok}
FirstFailing(results) ==
    CHOOSE i \in Failing(results) : \A j \in Failing(results) : i <= j

\* C2: a composite check of one or more members runs its members in tuple
\* order and stops at the first that fails: it answers the error of the failing
\* member of lowest index and runs no member after it; it answers Ok, having
\* run every member in order, when none fails
C2_CompositeOrder ==
    (comp.state = "done" /\ Len(comp.results) > 0) =>
        IF Failing(comp.results) = {}
        THEN /\ comp.res = Ok
             /\ comp.ran = [i \in 1..Len(comp.results) |-> i]
        ELSE /\ comp.res = comp.results[FirstFailing(comp.results)]
             /\ comp.ran = [i \in 1..FirstFailing(comp.results) |-> i]

\* a sanity tuple whose second and third members both fail
C2_Witness ==
    /\ comp.state = "done" /\ comp.kind = "sanity"
    /\ comp.results = <<Ok, "E1", "E2">>
    /\ comp.res = "E1" /\ comp.ran = <<1, 2>>

----------------------------------------------------------------------------
(* SpecMempool: the operations of one Mempool, in any order *)

PoolEp == "ep1"
PoolId == mempool_id(PoolEp, chain_id)
PoolHashes == {Hash(uo, PoolEp, chain_id) : uo \in UserOperations}

InitMempool ==
    /\ InitPool
    /\ task = [t \in Tasks |-> IdleTask]
    /\ comp = CompIdle

PoolStep(r, what) ==
    /\ mempools' = [mempools EXCEPT ![PoolId] = r.mp]
    /\ mp_last' = (IF r.ok THEN what ELSE r.err)
    /\ UNCHANGED <<reputations, sanity_check_results, task, comp, mp_req, reputation, rep_obs, wire, mp_start>>

PoolAdd ==
    \E uo \in UserOperations :
        PoolStep(MempoolAdd(mempools[PoolId], uo, Hash(uo, PoolEp, chain_id)),
                 IF MempoolGetPrevBySender(mempools[PoolId], uo) = None
                 THEN "added" ELSE "replaced")

PoolRemove ==
    \E h \in PoolHashes : PoolStep(MempoolRemove(mempools[PoolId], h), "removed")

PoolClear ==
    PoolStep([ok |-> TRUE, err |-> "", mp |-> MempoolClear(mempools[PoolId])], "cleared")

NextMempool == PoolAdd \/ PoolRemove \/ PoolClear

SpecMempool == InitMempool /\ [][NextMempool]_vars

\* C9: every hash held in the per-sender or per-entity index resolves in the
\* primary store, and each sender's index is as large as the number of stored
\* user operations of that sender
C9_IndicesResolve ==
    \A id \in MempoolIds :
        LET mp == mempools[id]
        IN  /\ \A a \in Address :
                  /\ mp.sender_to_hashes[a] \subseteq Stored(mp)
                  /\ mp.entity_to_hashes[a] \subseteq Stored(mp)
            /\ \A s \in Address :
                  Cardinality(mp.sender_to_hashes[s])
                      = Cardinality({h \in Stored(mp) : mp.uo_by_hash[h].sender = s})

\* a pool that has just removed an entry and still holds one of the same sender
C9_Witness ==
    /\ mp_last = "removed"
    /\ \E s \in Senders : Cardinality(mempools[PoolId].sender_to_hashes[s]) = 1
    /\ \E a \in Paymasters : mempools[PoolId].entity_to_hashes[a] # {}

\* C10: the mempool holds at most one entry for each (sender, nonce) pair
C10_OnePerSenderNonce ==
    \A id \in MempoolIds :
        \A h1, h2 \in Stored(mempools[id]) :
            LET u1 == mempools[id].uo_by_hash[h1]
                u2 == mempools[id].uo_by_hash[h2]
            IN  (u1.sender = u2.sender /\ u1.nonce = u2.nonce) => h1 = h2

\* a pool that has just replaced an entry and holds two entries of that sender
C10_Witness ==
    /\ mp_last = "replaced"
    /\ \E s \in Senders : Cardinality(mempools[PoolId].sender_to_hashes[s]) = 2

----------------------------------------------------------------------------
(* SpecReplacement: Mempool::add for one (sender, nonce) over a grid of fees *)

ReplaceFees == {<<f, p>> : f \in {0, 20, 21, 22, 23}, p \in {0, 10, 11, 12}}
ReplaceUos ==
    {UserOperation("s1", 0, fp, None, None) : fp \in ReplaceFees}
    \cup {UserOperation("s1", 1, <<20, 10>>, None, None)}

\* one direct Mempool::add; the request and the fee its answer names are kept
PoolAddOf(uo) ==
    LET r == MempoolAdd(mempools[PoolId], uo, Hash(uo, PoolEp, chain_id))
    IN  /\ mempools' = [mempools EXCEPT ![PoolId] = r.mp]
        /\ mp_last' = (IF ~r.ok THEN r.err
                       ELSE IF MempoolGetPrevBySender(mempools[PoolId], uo) = None
                       THEN "added" ELSE "replaced")
        /\ mp_req' = Some([uo |-> uo, needed |-> r.needed])
        /\ UNCHANGED <<reputations, sanity_check_results, task, comp,
                       reputation, rep_obs, wire, mp_start>>

ReplaceAdd == \E uo \in ReplaceUos : PoolAddOf(uo)

NextReplacement == ReplaceAdd

SpecReplacement == InitMempool /\ [][NextReplacement]_vars

\* the stored entries with the (sender, nonce) of uo
SameSlot(mp, uo) == {o \in MempoolGetAll(mp) : SameSenderNonce(o, uo)}
Bumped(old, new) == 100 * (new - old) >= GAS_INCREASE_PERC * old
SenderIndexSize(mp, a) == Cardinality(mp.sender_to_hashes[a])

\* what C11 says of an add that meets an entry old of its (sender, nonce),
\* but for the case of identical fees
ReplacementRule(old, new) ==
    IF /\ Bumped(old.max_fee_per_gas, new.max_fee_per_gas)
       /\ Bumped(old.max_priority_fee_per_gas, new.max_priority_fee_per_gas)
    THEN /\ mp_last' = "replaced"
         /\ new \in MempoolGetAll(mempools'[PoolId])
         /\ old # new => old \notin MempoolGetAll(mempools'[PoolId])
         /\ SenderIndexSize(mempools'[PoolId], new.sender)
               = SenderIndexSize(mempools[PoolId], new.sender)
    ELSE /\ mp_last' = "ReplacementUnderpriced"
         /\ mempools' = mempools
         /\ (old.max_fee_per_gas = 20 /\ new.max_fee_per_gas = 21) =>
                Unwrap(mp_req').needed = 22
         /\ ~Bumped(old.max_fee_per_gas, new.max_fee_per_gas) =>
                LET n == Unwrap(mp_req').needed
                IN  /\ Bumped(old.max_fee_per_gas, n)
                    /\ ~Bumped(old.max_fee_per_gas, n - 1)

SameFees(old, new) ==
    /\ old.max_fee_per_gas = new.max_fee_per_gas
    /\ old.max_priority_fee_per_gas = new.max_priority_fee_per_gas

----------------------------------------------------------------------------
(* SpecLimit: Mempool::add and remove with one more nonce per sender than  *)
(* MAX_UOS_PER_SENDER, for an unstaked and a staked sender                 *)

LimitUos ==
    {UserOperation(a, n, <<20, 10>>, None, None) :
        a \in Senders, n \in 0..MAX_UOS_PER_SENDER}

LimitAdd == \E uo \in LimitUos : PoolAddOf(uo)

LimitRemove ==
    \E uo \in LimitUos :
        LET r == MempoolRemove(mempools[PoolId], Hash(uo, PoolEp, chain_id))
        IN  /\ mempools' = [mempools EXCEPT ![PoolId] = r.mp]
            /\ mp_last' = (IF r.ok THEN "removed" ELSE r.err)
            /\ mp_req' = None
            /\ UNCHANGED <<reputations, sanity_check_results, task, comp,
                           reputation, rep_obs, wire, mp_start>>

NextLimit == LimitAdd \/ LimitRemove

SpecLimit == InitMempool /\ [][NextLimit]_vars

EntriesOf(mp, a) == {o \in MempoolGetAll(mp) : o.sender = a}

\* C12: an unstaked sender never has more than MAX_UOS_PER_SENDER entries, in
\* the primary store or in its index; an add with an unused nonce from an
\* unstaked sender that has MAX_UOS_PER_SENDER entries is answered
\* SenderOverLimit and changes neither the store nor an index
C12_SenderLimit ==
    [][/\ \A a \in Senders \ StakedSenders :
             /\ Cardinality(EntriesOf(mempools'[PoolId], a)) <= MAX_UOS_PER_SENDER
             /\ SenderIndexSize(mempools'[PoolId], a) <= MAX_UOS_PER_SENDER
       /\ \A q \in mp_req' :
             (/\ q.uo.sender \notin StakedSenders
              /\ SameSlot(mempools[PoolId], q.uo) = {}
              /\ Cardinality(EntriesOf(mempools[PoolId], q.uo.sender)) = MAX_UOS_PER_SENDER) =>
                 /\ mp_last' = "SenderOverLimit"
                 /\ mempools' = mempools]_vars

\* scenario S6: the unstaked s1 holds nonces 0..3 and its add of nonce 4 was
\* answered SenderOverLimit, while the staked s2 holds five entries
C12_Witness ==
    /\ mp_last = "SenderOverLimit"
    /\ \E q \in mp_req : q.uo.sender = "s1" /\ q.uo.nonce = MAX_UOS_PER_SENDER
    /\ Cardinality(EntriesOf(mempools[PoolId], "s1")) = MAX_UOS_PER_SENDER
    /\ Cardinality(EntriesOf(mempools[PoolId], "s2")) = MAX_UOS_PER_SENDER + 1

----------------------------------------------------------------------------
(* Reputation (specification section 4.2): counters per address, decay,    *)
(* and the status derived from them on every read                          *)

MIN_INCLUSION_RATE_DENOMINATOR == 10
THROTTLING_SLACK == 10
BAN_SLACK == 50

DefaultEntry == [ops_seen |-> 0, ops_included |-> 0]

\* the entry of an address, created with both counters 0 when there is none
set_default(ent, a) ==
    IF a \in DOMAIN ent THEN ent
    ELSE [x \in DOMAIN ent \cup {a} |-> IF x = a THEN DefaultEntry ELSE ent[x]]

\* increment_seen(addr)
increment_seen(ent, a) ==
    [set_default(ent, a) EXCEPT ![a].ops_seen = @ + 1]

\* increment_included(addr)
increment_included(ent, a) ==
    [set_default(ent, a) EXCEPT ![a].ops_included = @ + 1]

Decay(x) == (x * 23) \div 24

\* a decay that drops an entry as soon as one of its counters is zero
update_hourly_eager(ent) ==
    LET decayed == [a \in DOMAIN ent |->
                       [ops_seen |-> Decay(ent[a].ops_seen),
                        ops_included |-> Decay(ent[a].ops_included)]]
        kept == {a \in DOMAIN ent :
                    decayed[a].ops_seen > 0 /\ decayed[a].ops_included > 0}
    IN  [a \in kept |-> decayed[a]]

\* update_hourly(): both counters of every entry decay by 23/24; an entry
\* whose counters are both zero afterwards is dropped
update_hourly(ent) ==
    LET decayed == [a \in DOMAIN ent |->
                       [ops_seen |-> Decay(ent[a].ops_seen),
                        ops_included |-> Decay(ent[a].ops_included)]]
        kept == {a \in DOMAIN ent :
                    decayed[a].ops_seen > 0 \/ decayed[a].ops_included > 0}
    IN  [a \in kept |-> decayed[a]]

\* set_entities(whitelist, blacklist)
set_entities(r, whitelist, blacklist) ==
    [r EXCEPT !.whitelist = whitelist, !.blacklist = blacklist]

EntryOf(r, a) == IF a \in DOMAIN r.entities THEN r.entities[a] ELSE DefaultEntry

\* a status that bans as soon as the shortfall passes THROTTLING_SLACK
status_of_ban_early(r, a) ==
    IF a \in r.whitelist THEN "OK"
    ELSE IF a \in r.blacklist THEN "Banned"
    ELSE LET min_inclusion == EntryOf(r, a).ops_seen \div MIN_INCLUSION_RATE_DENOMINATOR
             diff == min_inclusion - EntryOf(r, a).ops_included
         IN  IF EntryOf(r, a).ops_included >= min_inclusion THEN "OK"
             ELSE IF diff <= THROTTLING_SLACK THEN "Throttled"
             ELSE "Banned"

\* status_of(addr): the lists first, the whitelist before the blacklist, then
\* the status derived from the counters
status_of(r, a) ==
    IF a \in r.whitelist THEN "OK"
    ELSE IF a \in r.blacklist THEN "Banned"
    ELSE LET min_inclusion == EntryOf(r, a).ops_seen \div MIN_INCLUSION_RATE_DENOMINATOR
             diff == min_inclusion - EntryOf(r, a).ops_included
         IN  IF EntryOf(r, a).ops_included >= min_inclusion THEN "OK"
             ELSE IF diff <= THROTTLING_SLACK THEN "Throttled"
             ELSE IF diff > BAN_SLACK THEN "Banned"
             ELSE "Throttled"

----------------------------------------------------------------------------
(* SpecReputation: the counter operations of one Reputation, in any order  *)

\* largest counter value an increment is applied to
MaxOps == 5

RepAddresses == {"s1", "pm"}
RepLists ==
    ReputationLists \cup {<<[address |-> "pm", ops_seen |-> 0, ops_included |-> 1]>>}

RepStep(ent, op, a) ==
    /\ reputation' = [reputation EXCEPT !.entities = ent]
    /\ rep_obs' = [NoObservation EXCEPT !.op = op, !.addr = a]
    /\ UNCHANGED <<mempools, reputations, sanity_check_results, task, comp,
                   mp_last, mp_req, wire, mp_start>>

IncrementSeen ==
    \E a \in RepAddresses :
        /\ OpsSeen(reputation.entities, a) < MaxOps
        /\ RepStep(increment_seen(reputation.entities, a), "increment_seen", a)

IncrementIncluded ==
    \E a \in RepAddresses :
        /\ a \in DOMAIN reputation.entities => reputation.entities[a].ops_included < MaxOps
        /\ RepStep(increment_included(reputation.entities, a), "increment_included", a)

UpdateHourly == RepStep(update_hourly(reputation.entities), "update_hourly", "")

SetList ==
    \E list \in RepLists :
        RepStep(ReputationSet(reputation.entities, list), "set", list[1].address)

NextReputation == IncrementSeen \/ IncrementIncluded \/ UpdateHourly \/ SetList

SpecReputation == InitMempool /\ [][NextReputation]_vars

\* C13: ops_seen >= ops_included for every reputation entry, after any
\* sequence of increment_seen, increment_included, update_hourly and set
C13_SeenAtLeastIncluded ==
    \A a \in DOMAIN reputation.entities :
        reputation.entities[a].ops_seen >= reputation.entities[a].ops_included

----------------------------------------------------------------------------
(* SpecStatus: status_of read, and read again, on counters around the      *)
(* thresholds, with the address on either list, both or none               *)

StatusAddress == "s1"
SeenValues == {0, 9, 10, 100, 109, 110, 119, 500, 509, 510, 519, 520, 609, 610, 1000}
IncludedValues == {0, 1, 10, 50}
ListChoices == SUBSET {StatusAddress}

InitStatus ==
    /\ mempools = [id \in MempoolIds |-> EmptyMempool]
    /\ reputations = [id \in MempoolIds |-> EmptyFcn]
    /\ sanity_check_results = {}
    /\ task = [t \in Tasks |-> IdleTask]
    /\ comp = CompIdle
    /\ mp_last = "none"
    /\ mp_req = None
    /\ rep_obs = NoObservation
    /\ wire = WireIdle
    /\ mp_start = None
    /\ \E ent \in {EmptyFcn} \cup
                   {[a \in {StatusAddress} |-> [ops_seen |-> n, ops_included |-> i]] :
                       n \in SeenValues, i \in IncludedValues},
          wl \in ListChoices, bl \in ListChoices :
            reputation = [entities |-> ent, whitelist |-> wl, blacklist |-> bl]

RepUnchanged ==
    UNCHANGED <<mempools, reputations, sanity_check_results, task, comp,
                mp_last, mp_req, wire, mp_start>>

\* a first read of the status
StatusOf ==
    /\ rep_obs' = [NoObservation EXCEPT !.op = "status_of", !.addr = StatusAddress,
                       !.status = status_of(reputation, StatusAddress)]
    /\ UNCHANGED reputation
    /\ RepUnchanged

\* a second read, nothing written since the first
StatusAgain ==
    /\ rep_obs.op = "status_of"
    /\ rep_obs' = [rep_obs EXCEPT !.again = status_of(reputation, rep_obs.addr)]
    /\ UNCHANGED reputation
    /\ RepUnchanged

SetEntities ==
    \E wl \in ListChoices, bl \in ListChoices :
        /\ reputation' = set_entities(reputation, wl, bl)
        /\ rep_obs' = [NoObservation EXCEPT !.op = "set_entities"]
        /\ RepUnchanged

NextStatus == StatusOf \/ StatusAgain \/ SetEntities

SpecStatus == InitStatus /\ [][NextStatus]_vars

MinInclusion(e) == e.ops_seen \div MIN_INCLUSION_RATE_DENOMINATOR
Shortfall(e) == MinInclusion(e) - e.ops_included

\* what C14 says of an address on neither list, and of the second read
DerivedStatus(e) ==
    /\ e.ops_included >= MinInclusion(e) => rep_obs.status = "OK"
    /\ (e.ops_included < MinInclusion(e) /\ Shortfall(e) <= THROTTLING_SLACK) =>
           rep_obs.status = "Throttled"
    /\ (e.ops_included < MinInclusion(e) /\ Shortfall(e) > BAN_SLACK) =>
           rep_obs.status = "Banned"
    /\ (Shortfall(e) > THROTTLING_SLACK /\ Shortfall(e) <= BAN_SLACK) =>
           rep_obs.status = "Throttled"

----------------------------------------------------------------------------
(* SpecDecay: update_hourly applied again and again to one entry, with no  *)
(* increment in between                                                    *)

\* largest counter of the entry the decay starts from
MaxCount == 24

InitDecay ==
    /\ mempools = [id \in MempoolIds |-> EmptyMempool]
    /\ reputations = [id \in MempoolIds |-> EmptyFcn]
    /\ sanity_check_results = {}
    /\ task = [t \in Tasks |-> IdleTask]
    /\ comp = CompIdle
    /\ mp_last = "none"
    /\ mp_req = None
    /\ wire = WireIdle
    /\ mp_start = None
    /\ \E n \in 0..MaxCount, i \in 0..MaxCount :
          /\ reputation = [EmptyReputation EXCEPT !.entities =
                              [a \in {StatusAddress} |-> [ops_seen |-> n, ops_included |-> i]]]
          /\ rep_obs = [NoObservation EXCEPT !.start = reputation.entities]

\* one tick of the decay task; the ticks since the start are counted
DecayTick ==
    /\ rep_obs.decays <= MaxCount
    /\ reputation' = [reputation EXCEPT !.entities = update_hourly(@)]
    /\ rep_obs' = [rep_obs EXCEPT !.op = "update_hourly", !.decays = @ + 1]
    /\ RepUnchanged

NextDecay == DecayTick

SpecDecay == InitDecay /\ [][NextDecay]_vars

\* y is x * 23 / 24 rounded down
IsDecayOf(y, x) == 24 * y <= 23 * x /\ 23 * x < 24 * (y + 1)
Larger(e) == IF e.ops_seen >= e.ops_included THEN e.ops_seen ELSE e.ops_included

\* C15: update_hourly takes each counter x to floor(x * 23 / 24) and drops an
\* entry exactly when both counters are then zero; with no increment every
\* entry is gone after finitely many decays (as many as its larger counter, at
\* most); the entry with ops_seen = 24, ops_included = 0 is gone after 24
\* decays and still there after 23
C15_Decay ==
    [][/\ DOMAIN reputation'.entities \subseteq DOMAIN reputation.entities
       /\ \A a \in DOMAIN reputation.entities :
             /\ a \in DOMAIN reputation'.entities =>
                   /\ IsDecayOf(reputation'.entities[a].ops_seen,
                                reputation.entities[a].ops_seen)
                   /\ IsDecayOf(reputation'.entities[a].ops_included,
                                reputation.entities[a].ops_included)
             /\ a \notin DOMAIN reputation'.entities <=>
                   /\ IsDecayOf(0, reputation.entities[a].ops_seen)
                   /\ IsDecayOf(0, reputation.entities[a].ops_included)
       /\ \A a \in DOMAIN rep_obs.start :
             /\ (rep_obs'.decays >= Larger(rep_obs.start[a]) /\ rep_obs'.decays >= 1) =>
                   a \notin DOMAIN reputation'.entities
             /\ rep_obs.start[a] = [ops_seen |-> 24, ops_included |-> 0] =>
                   (a \in DOMAIN reputation'.entities <=> rep_obs'.decays < 24)]_vars

\* scenario S7: the entry that started at 24 / 0 is gone at the 24th decay
C15_Witness ==
    /\ rep_obs.decays = 24
    /\ rep_obs.start = [a \in {StatusAddress} |-> [ops_seen |-> 24, ops_included |-> 0]]
    /\ reputation.entities = EmptyFcn

----------------------------------------------------------------------------
(* SpecParallel: two admissions of distinct (sender, nonce) pairs, both    *)
(* validated, each inserting under the write guard of the pool, in either  *)
(* order (specification sections 4.5, 5)                                   *)

\* the pools the admissions start from: s1 holds nonces 0..k-1
StartPool(k) ==
    LET uos == {UserOperation("s1", n, <<20, 10>>, None, None) : n \in 0..(k - 1)}
    IN  [uo_by_hash |-> [h \in {Hash(uo, PoolEp, chain_id) : uo \in uos} |-> h.uo],
         sender_to_hashes |-> [a \in Address |->
             {Hash(uo, PoolEp, chain_id) : uo \in {u \in uos : u.sender = a}}],
         entity_to_hashes |-> [a \in Address |->
             {Hash(uo, PoolEp, chain_id) : uo \in {u \in uos : a \in Entities(u)}}]]

\* the admissions drawn: two fresh nonces of the unstaked s1, a replacement of
\* its nonce 0, and an operation of the staked s2
ParallelUos ==
    {UserOperation("s1", MAX_UOS_PER_SENDER - 1, <<20, 10>>, None, None),
     UserOperation("s1", MAX_UOS_PER_SENDER, <<20, 10>>, None, None),
     UserOperation("s1", 0, <<22, 11>>, None, None),
     UserOperation("s2", 0, <<20, 10>>, None, None)}

InitParallel ==
    /\ reputations = [id \in MempoolIds |-> EmptyFcn]
    /\ sanity_check_results = {}
    /\ comp = CompIdle
    /\ mp_last = "none"
    /\ mp_req = None
    /\ reputation = EmptyReputation
    /\ rep_obs = NoObservation
    /\ wire = WireIdle
    /\ \E k \in 0..MAX_UOS_PER_SENDER, u1 \in ParallelUos, u2 \in ParallelUos :
          /\ ~SameSenderNonce(u1, u2)
          /\ mempools = [id \in MempoolIds |->
                            IF id = PoolId THEN StartPool(k) ELSE EmptyMempool]
          /\ mp_start = Some(StartPool(k))
          /\ task = [t \in Tasks |->
                        [IdleTask EXCEPT !.op = "add", !.pc = "insert", !.ep = Some(PoolEp),
                            !.uo = Some(IF t = "t1" THEN u1 ELSE u2)]]

\* an insertion that writes back the pool it read when the request arrived
AdmitInsertStale(t) ==
    /\ task[t].pc = "insert"
    /\ LET uo == Unwrap(task[t].uo)
           r == MempoolAdd(Unwrap(mp_start), uo, Hash(uo, PoolEp, chain_id))
       IN  /\ mempools' = [mempools EXCEPT ![PoolId] = r.mp]
           /\ task' = [task EXCEPT ![t].pc = "done",
                  ![t].result =
                      IF r.ok
                      THEN [NoResult EXCEPT !.status = "Response", !.result = "Added",
                               !.hash = Some(Hash(uo, PoolEp, chain_id))]
                      ELSE [NoResult EXCEPT !.status = "Response", !.result = "NotAdded",
                               !.error = [kind |-> "Mempool", err |-> r.err, message |-> ""]]]
    /\ UNCHANGED <<reputations, sanity_check_results, comp, direct>>

\* the insertion of an admission, under the write guard of the pool
AdmitInsert(t) ==
    /\ task[t].pc = "insert"
    /\ LET uo == Unwrap(task[t].uo)
           r == MempoolAdd(mempools[PoolId], uo, Hash(uo, PoolEp, chain_id))
       IN  /\ mempools' = [mempools EXCEPT ![PoolId] = r.mp]
           /\ task' = [task EXCEPT ![t].pc = "done",
                  ![t].result =
                      IF r.ok
                      THEN [NoResult EXCEPT !.status = "Response", !.result = "Added",
                               !.hash = Some(Hash(uo, PoolEp, chain_id))]
                      ELSE [NoResult EXCEPT !.status = "Response", !.result = "NotAdded",
                               !.error = [kind |-> "Mempool", err |-> r.err, message |-> ""]]]
    /\ UNCHANGED <<reputations, sanity_check_results, comp, direct>>

NextParallel == \E t \in Tasks : AdmitInsert(t)

SpecParallel == InitParallel /\ [][NextParallel]_vars

\* the pool after the admissions of t1 and then of t2, one after the other
Sequential(mp, u1, u2) ==
    LET first == MempoolAdd(mp, u1, Hash(u1, PoolEp, chain_id)).mp
    IN  MempoolAdd(first, u2, Hash(u2, PoolEp, chain_id)).mp

AllInserted == \A t \in Tasks : task[t].op = "add" /\ task[t].pc = "done" /\ mp_start # None
RequestsOf(a) == {Unwrap(task[t].uo) : t \in {u \in Tasks : Unwrap(task[u].uo).sender = a}}
FreshRequestsOf(a) == {u \in RequestsOf(a) : SameSlot(Unwrap(mp_start), u) = {}}

\* every unstaked sender stays within MAX_UOS_PER_SENDER with all its requests in
WithinLimit ==
    \A a \in Senders \ StakedSenders :
        Cardinality(EntriesOf(Unwrap(mp_start), a)) + Cardinality(FreshRequestsOf(a))
            <= MAX_UOS_PER_SENDER

----------------------------------------------------------------------------
(* estimate_user_operation_gas under Spec *)

\* the requests that were answered with an estimate
Estimated(t) ==
    /\ task[t].op = "estimate" /\ task[t].pc = "done"
    /\ task[t].result.result = "Estimated"

\* C17: an estimate is given only after the sanity checks and the simulation
\* have run, simulate_validation_trace is never called, and the estimate holds
\* the overhead's pre_verification_gas, the simulation's verification gas and
\* the chain client's gas estimate
C17_EstimateChecks ==
    \A t \in Tasks :
        /\ task[t].op = "estimate" =>
               "simulate_validation_trace" \notin Range(task[t].calls)
        /\ Estimated(t) =>
               /\ SanityRan(t)
               /\ "simulate_validation" \in Range(task[t].calls)
               /\ LET est == Unwrap(task[t].result.est)
                  IN  /\ est.pre_verification_gas =
                             PreVerificationGas(Unwrap(task[t].uo))
                      /\ est.verification_gas_limit = Unwrap(task[t].sim_res).pre_op_gas
                      /\ est.call_gas_limit \in GasEstimates

----------------------------------------------------------------------------
(* SpecQuiet: the service serving one request at a time, the other holders *)
(* of the ep1 pool writing only while no clear is under way                *)

\* a clear has taken the mempools and has yet to take the reputations
Clearing == \E t \in Tasks : task[t].pc = "clear_reputations"

QuietAdd ==
    /\ ~Clearing
    /\ \E uo \in RequestUos :
          PoolStep(MempoolAdd(mempools[PoolId], uo, Hash(uo, PoolEp, chain_id)), "added")

QuietRemove ==
    /\ ~Clearing
    /\ \E uo \in RequestUos :
          PoolStep(MempoolRemove(mempools[PoolId], Hash(uo, PoolEp, chain_id)), "removed")

NextQuiet ==
    \/ \E uo \in RequestUoFields, ep \in RequestEpFields, bad \in BadFields :
          Add("t1", uo, ep, bad)
    \/ task["t1"].op = "add" /\ ValidateStep("t1")
    \/ ClearMempools("t1")
    \/ ClearReputations("t1")
    \/ \E ep \in RequestEpFields : GetAll("t1", ep)
    \/ \E ep \in RequestEpFields, list \in ReputationLists : SetReputation("t1", ep, list)
    \/ \E ep \in RequestEpFields : GetAllReputation("t1", ep)
    \/ QuietAdd
    \/ QuietRemove
    \/ NextRequest("t1")

SpecQuiet == Init /\ [][NextQuiet]_vars

\* get_all returns no user operation for any entry point, get_all_reputation
\* returns no entry
AllEmpty(mps, reps) ==
    /\ \A id \in DOMAIN mps : MempoolGetAll(mps[id]) = {}
    /\ \A id \in DOMAIN reps : DOMAIN reps[id] = {}

\* C18: when clear returns, no writer having run since it began, every mempool
\* and every reputation is empty
C18_ClearEmpties ==
    [][\A t \in Tasks :
          (task'[t].op = "clear" /\ task[t].pc # "done" /\ task'[t].pc = "done") =>
              AllEmpty(mempools', reputations')]_vars

\* clear has answered Cleared after an entry was added to the ep1 pool, and
\* nothing is left
C18_Witness ==
    \E t \in Tasks :
        /\ task[t].op = "clear" /\ task[t].pc = "done"
        /\ task[t].result.result = "Cleared"
        /\ mp_last = "added"
        /\ AllEmpty(mempools, reputations)

----------------------------------------------------------------------------
(* SpecAtomic: a validated admission that replaces an entry, removing the  *)
(* predecessor and inserting the successor under the write guard of the    *)
(* pool, while another request reads the pool under its read guard         *)
(* (specification sections 4.5, 4.6, 5)                                    *)

\* the fees of the admitted user operation
AtomicFees == {<<22, 11>>, <<30, 20>>}

InitAtomic ==
    /\ reputations = [id \in MempoolIds |-> EmptyFcn]
    /\ sanity_check_results = {}
    /\ comp = CompIdle
    /\ mp_last = "none"
    /\ mp_req = None
    /\ reputation = EmptyReputation
    /\ rep_obs = NoObservation
    /\ wire = WireIdle
    /\ \E k \in 1..(MAX_UOS_PER_SENDER - 1), n \in 0..(MAX_UOS_PER_SENDER - 1),
          fp \in AtomicFees :
          LET uo == UserOperation("s1", n, fp, None, None)
              prev == MempoolGetPrevBySender(StartPool(k), uo)
          IN  /\ n <= k
              /\ mempools = [id \in MempoolIds |->
                                IF id = PoolId THEN StartPool(k) ELSE EmptyMempool]
              /\ mp_start = Some(StartPool(k))
              /\ task = [t \in Tasks |->
                    IF t = "t1"
                    THEN [IdleTask EXCEPT !.op = "add", !.pc = "insert",
                             !.ep = Some(PoolEp), !.uo = Some(uo),
                             !.out = [DefaultOutcome EXCEPT !.prev_hash =
                                         {Hash(o, PoolEp, chain_id) : o \in prev}]]
                    ELSE IdleTask]

\* the write guard of the pool is held
WriteHeld == \E t \in Tasks : task[t].pc \in {"remove_prev", "insert_new"}

\* the admission takes the write guard
AcquireWrite(t) ==
    /\ task[t].pc = "insert"
    /\ ~WriteHeld
    /\ task' = [task EXCEPT ![t].pc = IF task[t].out.prev_hash = None
                                      THEN "insert_new" ELSE "remove_prev"]
    /\ UNCHANGED <<mempools, reputations, sanity_check_results, comp, direct>>

\* the replaced entry is removed
RemovePrev(t) ==
    /\ task[t].pc = "remove_prev"
    /\ mempools' = [mempools EXCEPT ![PoolId] =
                       MempoolRemove(@, Unwrap(task[t].out.prev_hash)).mp]
    /\ task' = [task EXCEPT ![t].pc = "insert_new"]
    /\ UNCHANGED <<reputations, sanity_check_results, comp, direct>>

\* the new entry is inserted and the write guard is dropped
InsertNew(t) ==
    /\ task[t].pc = "insert_new"
    /\ LET uo == Unwrap(task[t].uo)
           r == MempoolAdd(mempools[PoolId], uo, Hash(uo, PoolEp, chain_id))
       IN  /\ mempools' = [mempools EXCEPT ![PoolId] = r.mp]
           /\ task' = [task EXCEPT ![t].pc = "done",
                  ![t].result =
                      IF r.ok
                      THEN [NoResult EXCEPT !.status = "Response", !.result = "Added",
                               !.hash = Some(Hash(uo, PoolEp, chain_id))]
                      ELSE [NoResult EXCEPT !.status = "Response", !.result = "NotAdded",
                               !.error = [kind |-> "Mempool", err |-> r.err, message |-> ""]]]
    /\ UNCHANGED <<reputations, sanity_check_results, comp, direct>>

\* a get_all that does not wait for the write guard
ReadGetAllUnguarded(t) ==
    /\ task[t].pc = "idle"
    /\ task' = [task EXCEPT ![t] = [IdleTask EXCEPT !.op = "get_all", !.pc = "done",
                   !.ep = Some(PoolEp),
                   !.result = [NoResult EXCEPT !.status = "Response", !.result = "GotAll",
                                  !.uos = MempoolGetAll(mempools[PoolId])]]]
    /\ UNCHANGED <<mempools, reputations, sanity_check_results, comp, direct>>

\* get_all under the read guard
ReadGetAll(t) ==
    /\ task[t].pc = "idle"
    /\ ~WriteHeld
    /\ task' = [task EXCEPT ![t] = [IdleTask EXCEPT !.op = "get_all", !.pc = "done",
                   !.ep = Some(PoolEp),
                   !.result = [NoResult EXCEPT !.status = "Response", !.result = "GotAll",
                                  !.uos = MempoolGetAll(mempools[PoolId])]]]
    /\ UNCHANGED <<mempools, reputations, sanity_check_results, comp, direct>>

\* get_prev_by_sender of another request for the same (sender, nonce), under
\* the read guard
ReadPrevBySender(t, uo) ==
    /\ task[t].pc = "idle"
    /\ ~WriteHeld
    /\ task' = [task EXCEPT ![t] = [IdleTask EXCEPT !.op = "get_prev_by_sender",
                   !.pc = "done", !.ep = Some(PoolEp), !.uo = Some(uo),
                   !.result = [NoResult EXCEPT !.status = "Response",
                                  !.uos = MempoolGetPrevBySender(mempools[PoolId], uo)]]]
    /\ UNCHANGED <<mempools, reputations, sanity_check_results, comp, direct>>

NextAtomic ==
    \/ AcquireWrite("t1")
    \/ RemovePrev("t1")
    \/ InsertNew("t1")
    \/ ReadGetAll("t2")
    \/ ReadPrevBySender("t2", Unwrap(task["t1"].uo))
    \/ NextRequest("t2")

SpecAtomic == InitAtomic /\ [][NextAtomic]_vars

\* the admissions that replace an entry, and what the readers were given
Replacing(w) == task[w].op = "add" /\ task[w].out.prev_hash # None
Observed(r) ==
    /\ task[r].op \in {"get_all", "get_prev_by_sender"}
    /\ task[r].pc = "done"

----------------------------------------------------------------------------
(* Database wrappers (crates/uopool/src/database/utils.rs): the bytes of   *)
(* keys and values.  A byte is a number of 0..255; an Address is its 20    *)
(* bytes, a UserOperationHash its 32 bytes; uints stay below 2^31          *)

ADDRESS_BYTES == 20
HASH_BYTES == 32
WORD_BYTES == 32

Zeros(n) == [i \in 1..n |-> 0]
\* sample byte strings of length n
Ramp(n, m) == [i \in 1..n |-> (i * m + 1) % 256]

Pow256(k) == IF k = 0 THEN 1 ELSE IF k = 1 THEN 256 ELSE IF k = 2 THEN 65536 ELSE 16777216

\* a uint as a big-endian word
Word(n) ==
    [i \in 1..WORD_BYTES |->
        IF i <= WORD_BYTES - 4 THEN 0 ELSE (n \div Pow256(WORD_BYTES - i)) % 256]

\* the uint of a word; -1 stands for the values of 2^31 and more
Uint(w) ==
    IF SubSeq(w, 1, WORD_BYTES - 4) # Zeros(WORD_BYTES - 4) \/ w[WORD_BYTES - 3] >= 128
    THEN -1
    ELSE w[WORD_BYTES - 3] * Pow256(3) + w[WORD_BYTES - 2] * Pow256(2)
             + w[WORD_BYTES - 1] * Pow256(1) + w[WORD_BYTES]

\* an address as a word: left-padded with zeros
AddressWord(a) == Zeros(WORD_BYTES - ADDRESS_BYTES) \o a

\* an address read from the first bytes of its word
WordAddressLeft(w) == SubSeq(w, 1, ADDRESS_BYTES)

\* the address of a word: its last 20 bytes
WordAddress(w) == SubSeq(w, WORD_BYTES - ADDRESS_BYTES + 1, WORD_BYTES)

\* dynamic bytes: the length, the data, zeros up to a whole word
BytesTail(d) ==
    Word(Len(d)) \o d \o Zeros((WORD_BYTES - (Len(d) % WORD_BYTES)) % WORD_BYTES)

\* a token: its encoding, and whether it goes to the tail behind an offset
Static(e) == [dyn |-> FALSE, enc |-> e]
Dynamic(e) == [dyn |-> TRUE, enc |-> e]

RECURSIVE HeadLen(_, _)
HeadLen(ts, i) ==
    IF i > Len(ts) THEN 0
    ELSE (IF ts[i].dyn THEN WORD_BYTES ELSE Len(ts[i].enc)) + HeadLen(ts, i + 1)

RECURSIVE Heads(_, _, _)
Heads(ts, i, off) ==
    IF i > Len(ts) THEN <<>>
    ELSE IF ts[i].dyn THEN Word(off) \o Heads(ts, i + 1, off + Len(ts[i].enc))
    ELSE ts[i].enc \o Heads(ts, i + 1, off)

RECURSIVE Tails(_, _)
Tails(ts, i) ==
    IF i > Len(ts) THEN <<>>
    ELSE (IF ts[i].dyn THEN ts[i].enc ELSE <<>>) \o Tails(ts, i + 1)

\* ethers::abi::encode(tokens): the heads, then the tails
AbiEncodeTokens(ts) == Heads(ts, 1, HeadLen(ts, 1)) \o Tails(ts, 1)

\* Token::Tuple: dynamic when a member is
TupleToken(ts) ==
    [dyn |-> \E i \in 1..Len(ts) : ts[i].dyn, enc |-> AbiEncodeTokens(ts)]

\* the word at byte offset off of b, or <<>> past the end
WordAt(b, off) ==
    IF off >= 0 /\ off + WORD_BYTES <= Len(b)
    THEN SubSeq(b, off + 1, off + WORD_BYTES) ELSE <<>>

\* ethers::abi::decode of one member of type ty whose head is at byte head of
\* b, in a tuple that starts at byte base; None on malformed bytes
DecodeMember(ty, b, base, head) ==
    LET w == WordAt(b, head)
    IN  IF w = <<>> THEN None
        ELSE IF ty = "address" THEN Some(WordAddress(w))
        ELSE IF ty = "bytes32" THEN Some(w)
        ELSE IF ty = "uint" THEN (IF Uint(w) < 0 THEN None ELSE Some(Uint(w)))
        ELSE LET off == Uint(w)
                 lw == IF off < 0 THEN <<>> ELSE WordAt(b, base + off)
                 len == IF lw = <<>> THEN -1 ELSE Uint(lw)
             IN  IF len < 0 \/ base + off + WORD_BYTES + len > Len(b) THEN None
                 ELSE Some(SubSeq(b, base + off + WORD_BYTES + 1,
                                  base + off + WORD_BYTES + len))

\* ethers::abi::decode of the members of a tuple that starts at byte base
DecodeMembers(types, b, base) ==
    LET ms == [i \in 1..Len(types) |->
                  DecodeMember(types[i], b, base, base + WORD_BYTES * (i - 1))]
    IN  IF \E i \in 1..Len(types) : ms[i] = None THEN None
        ELSE Some([i \in 1..Len(types) |-> Unwrap(ms[i])])

IsDynamic(types) == \E i \in 1..Len(types) : types[i] = "bytes"

\* ethers::abi::decode(&[ParamType::Tuple(types)], b): a dynamic tuple lies
\* behind an offset, a static one in place
AbiDecodeWrapped(types, b) ==
    IF IsDynamic(types)
    THEN LET w == WordAt(b, 0)
         IN  IF w = <<>> \/ Uint(w) < 0 THEN None ELSE DecodeMembers(types, b, Uint(w))
    ELSE DecodeMembers(types, b, 0)

\* ethers::abi::decode(types, b): the members at the top level
AbiDecodeFlat(types, b) == DecodeMembers(types, b, 0)

\* the types of the structures
UserOperationTypes ==
    <<"address", "uint", "bytes", "bytes", "uint", "uint", "uint", "uint", "uint",
      "bytes", "bytes">>
ReputationEntryTypes == <<"address", "uint", "uint", "uint">>
CodeHashTypes == <<"address", "bytes32">>

UserOperationTokens(uo) ==
    <<Static(AddressWord(uo.sender)), Static(Word(uo.nonce)),
      Dynamic(BytesTail(uo.init_code)), Dynamic(BytesTail(uo.call_data)),
      Static(Word(uo.call_gas_limit)), Static(Word(uo.verification_gas_limit)),
      Static(Word(uo.pre_verification_gas)), Static(Word(uo.max_fee_per_gas)),
      Static(Word(uo.max_priority_fee_per_gas)),
      Dynamic(BytesTail(uo.paymaster_and_data)), Dynamic(BytesTail(uo.signature))>>

UserOperationOf(m) ==
    [sender |-> m[1], nonce |-> m[2], init_code |-> m[3], call_data |-> m[4],
     call_gas_limit |-> m[5], verification_gas_limit |-> m[6],
     pre_verification_gas |-> m[7], max_fee_per_gas |-> m[8],
     max_priority_fee_per_gas |-> m[9], paymaster_and_data |-> m[10],
     signature |-> m[11]]

ReputationEntryTokens(e) ==
    <<Static(AddressWord(e.address)), Static(Word(e.uo_seen)),
      Static(Word(e.uo_included)), Static(Word(e.status))>>

ReputationEntryOf(m) ==
    [address |-> m[1], uo_seen |-> m[2], uo_included |-> m[3], status |-> m[4]]

CodeHashTokens(c) == <<Static(AddressWord(c.address)), Static(c.hash)>>

CodeHashOf(m) == [address |-> m[1], hash |-> m[2]]

\* utils.rs 29-34: Encode of WrapAddress / WrapUserOperationHash
encode(kind, k) == k

\* utils.rs 23-27: Decode, from_slice takes exactly the bytes of the type
decode(kind, b) ==
    IF Len(b) = (IF kind = "Address" THEN ADDRESS_BYTES ELSE HASH_BYTES)
    THEN Some(b) ELSE None

\* utils.rs 48-53, 76-81: Compress
compress(kind, x) ==
    IF kind \in {"Address", "UserOperationHash"} THEN encode(kind, x)
    ELSE IF kind = "UserOperation"
    THEN AbiEncodeTokens(<<TupleToken(UserOperationTokens(x))>>)
    ELSE IF kind = "ReputationEntry"
    THEN AbiEncodeTokens(<<TupleToken(ReputationEntryTokens(x))>>)
    ELSE AbiEncodeTokens(<<TupleToken(CodeHashTokens(x))>>)

\* utils.rs 55-59, 83-87: Decompress
decompress(kind, b) ==
    IF kind \in {"Address", "UserOperationHash"} THEN decode(kind, b)
    ELSE IF kind = "UserOperation"
    THEN {UserOperationOf(m) : m \in AbiDecodeWrapped(UserOperationTypes, b)}
    ELSE IF kind = "ReputationEntry"
    THEN {ReputationEntryOf(m) : m \in AbiDecodeWrapped(ReputationEntryTypes, b)}
    ELSE {CodeHashOf(m) : m \in AbiDecodeWrapped(CodeHashTypes, b)}

\* utils.rs 126-137: Encoder / Decoder of WrapCodeHash, a byte vector behind
\* its length
LenPrefix(n) == IF n < 128 THEN <<n>> ELSE <<128 + (n \div 256), n % 256>>

encoder(c) ==
    LET abi == AbiEncodeTokens(<<TupleToken(CodeHashTokens(c))>>)
    IN  LenPrefix(Len(abi)) \o abi

decoder(b) ==
    IF Len(b) = 0 THEN None
    ELSE LET two == b[1] >= 128
             n == IF two THEN (b[1] - 128) * 256 + b[2] ELSE b[1]
             skip == IF two THEN 2 ELSE 1
         IN  IF Len(b) < skip + n THEN None
             ELSE {CodeHashOf(m) :
                      m \in AbiDecodeFlat(CodeHashTypes, SubSeq(b, skip + 1, skip + n))}

----------------------------------------------------------------------------
(* SpecWire: a key or a value is written to the database and read back     *)

WireAddresses == {Zeros(ADDRESS_BYTES), Ramp(ADDRESS_BYTES, 7), Ramp(ADDRESS_BYTES, 255)}
WireHashes == {Zeros(HASH_BYTES), Ramp(HASH_BYTES, 3), Ramp(HASH_BYTES, 254)}
WireBytes == {<<>>, Ramp(4, 9), Ramp(ADDRESS_BYTES, 5), Ramp(WORD_BYTES + 1, 11)}

\* the uints drawn reach 2^31 - 1
WireUserOperations ==
    {[sender |-> a, nonce |-> n, init_code |-> ic, call_data |-> cd,
      call_gas_limit |-> 33000, verification_gas_limit |-> 100000,
      pre_verification_gas |-> 2147483647, max_fee_per_gas |-> f,
      max_priority_fee_per_gas |-> 10, paymaster_and_data |-> pd,
      signature |-> Ramp(65, 13)] :
        a \in {Ramp(ADDRESS_BYTES, 7), Ramp(ADDRESS_BYTES, 255)}, n \in {0, 256},
        ic \in {<<>>, Ramp(ADDRESS_BYTES, 5)}, cd \in WireBytes, f \in {20, 2147483647},
        pd \in {<<>>, Ramp(ADDRESS_BYTES, 5)}}

WireReputationEntries ==
    {[address |-> a, uo_seen |-> s, uo_included |-> i, status |-> st] :
        a \in WireAddresses, s \in {0, 24, 2147483647}, i \in {0, 255}, st \in 0..2}

WireCodeHashes == {[address |-> a, hash |-> h] : a \in WireAddresses, h \in WireHashes}

WireValues(kind) ==
    IF kind = "Address" THEN WireAddresses
    ELSE IF kind = "UserOperationHash" THEN WireHashes
    ELSE IF kind = "UserOperation" THEN WireUserOperations
    ELSE IF kind = "ReputationEntry" THEN WireReputationEntries
    ELSE WireCodeHashes

WireKinds == {"Address", "UserOperationHash", "UserOperation", "ReputationEntry", "CodeHash"}

InitWire ==
    /\ mempools = [id \in MempoolIds |-> EmptyMempool]
    /\ reputations = [id \in MempoolIds |-> EmptyFcn]
    /\ sanity_check_results = {}
    /\ task = [t \in Tasks |-> IdleTask]
    /\ comp = CompIdle
    /\ mp_last = "none"
    /\ mp_req = None
    /\ reputation = EmptyReputation
    /\ rep_obs = NoObservation
    /\ mp_start = None
    /\ \E kind \in WireKinds :
          \E x \in WireValues(kind) : wire = [WireIdle EXCEPT !.kind = kind, !.value = x]

WireStep(state, bytes, back) ==
    /\ wire' = [wire EXCEPT !.state = state, !.bytes = bytes, !.back = back]
    /\ UNCHANGED <<mempools, reputations, sanity_check_results, task, comp,
                   mp_last, mp_req, reputation, rep_obs, mp_start>>

Compress ==
    /\ wire.state = "idle"
    /\ WireStep("compressed", compress(wire.kind, wire.value), {})

Decompress ==
    /\ wire.state = "compressed"
    /\ WireStep("decompressed", wire.bytes, decompress(wire.kind, wire.bytes))

Encode ==
    /\ wire.state = "idle"
    /\ wire.kind \in {"Address", "UserOperationHash"}
    /\ WireStep("encoded", encode(wire.kind, wire.value), {})

Decode ==
    /\ wire.state = "encoded"
    /\ WireStep("decoded", wire.bytes, decode(wire.kind, wire.bytes))

Encoder ==
    /\ wire.state = "idle"
    /\ wire.kind = "CodeHash"
    /\ WireStep("written", encoder(wire.value), {})

Decoder ==
    /\ wire.state = "written"
    /\ WireStep("read", wire.bytes, decoder(wire.bytes))

NextWire == Compress \/ Decompress \/ Encode \/ Decode \/ Encoder \/ Decoder

SpecWire == InitWire /\ [][NextWire]_vars

\* C20: what is read back from the bytes of a key or a value equals the key or
\* the value that was written: decompress(compress(x)) = x for a UserOperation,
\* a ReputationEntry, a CodeHash, decode(encode(k)) = k for an Address and a
\* UserOperationHash
C20_RoundTrip ==
    wire.state \in {"decompressed", "decoded", "read"} => wire.back = Some(wire.value)

\* a user operation whose call data ends inside a word, with init code and
\* paymaster data, has come back from its bytes
C20_Witness ==
    /\ wire.kind = "UserOperation" /\ wire.state = "decompressed"
    /\ Len(wire.value.call_data) = WORD_BYTES + 1
    /\ wire.value.init_code # <<>> /\ wire.value.paymaster_and_data # <<>>
    /\ Len(wire.bytes) = 23 * WORD_BYTES
    /\ wire.back = Some(wire.value)

----------------------------------------------------------------------------
(* SpecOrder: the canonical validator validates a user operation that      *)
(* violates given rules, in every mode, the chain answering as it will     *)

\* the most rules a user operation violates at once
MaxViolated == 2

\* the order in which C24 lists the checks, and the phase of each
DeclaredOrder ==
    <<"Sender", "VerificationGas", "CallGas", "MaxFee", "Paymaster", "Entities",
      "UnstakedEntities", "Signature", "Timestamp", "Gas", "Opcodes",
      "ExternalContracts", "StorageAccess", "CallStack", "CodeHashes">>
PhaseOf(i) == IF i <= 7 THEN Sanity ELSE IF i <= 9 THEN Simulation ELSE SimulationTrace

InitOrder ==
    /\ InitPool
    /\ task = [t \in Tasks |-> IdleTask]
    /\ \E violated \in SUBSET Range(DeclaredOrder) :
          /\ Cardinality(violated) <= MaxViolated
          /\ comp = [CompIdle EXCEPT !.kind = "request", !.results = violated]

NextOrder ==
    \/ \E mode \in Modes : CallValidate("t1", UoA, "ep1", mode, "canonical")
    \/ ValidateStep("t1")

SpecOrder == InitOrder /\ [][NextOrder]_vars

\* the places in the listed order of the violated rules whose phase is in the
\* mode of the request
Reported(t) ==
    {i \in 1..Len(DeclaredOrder) :
        DeclaredOrder[i] \in comp.results /\ PhaseOf(i) \in task[t].mode}

\* C24: the canonical validator declares its checks in the listed order, and
\* a request that ends with the error of a check ends with that of the
\* earliest violated rule in this order among the phases of its mode; a
\* request that violates such a rule gets no Outcome
C24_DeclaredOrder ==
    /\ new_canonical.sanity_checks \o new_canonical.simulation_checks
           \o new_canonical.simulation_trace_checks = DeclaredOrder
    /\ \A t \in Tasks :
          (task[t].op = "validate" /\ task[t].pc = "done") =>
              /\ task[t].result.error.err \in Range(DeclaredOrder) =>
                     \E i \in Reported(t) :
                         /\ task[t].result.error.err = DeclaredOrder[i]
                         /\ \A j \in Reported(t) : i <= j
              /\ task[t].result.status = "Ok" => Reported(t) = {}

\* a user operation that violates Gas and Opcodes was refused for Gas
C24_Witness ==
    \E t \in Tasks :
        /\ task[t].op = "validate" /\ task[t].pc = "done"
        /\ comp.results = {"Gas", "Opcodes"}
        /\ task[t].result.error = SimulationError("Gas", "")

----------------------------------------------------------------------------
(* SpecDrop: admissions that the caller may drop while a chain call is in  *)
(* flight, the other holders of the ep1 pool adding and removing entries   *)

\* the positions at which a chain call of the validation is in flight
InFlight == {"simulate_validation", "get_block", "simulate_validation_trace"}

\* the caller drops the request: the future is never polled again
Drop(t) ==
    /\ task[t].pc \in InFlight
    /\ task' = [task EXCEPT ![t].pc = "dropped"]
    /\ UNCHANGED <<mempools, reputations, sanity_check_results, comp, direct>>

NextDrop ==
    \/ \E uo \in RequestUos, ep \in {"ep1", "ep2"} : Add("t1", Some(uo), Some(ep), "")
    \/ task["t1"].op = "add" /\ ValidateStep("t1")
    \/ Drop("t1")
    \/ \E uo \in RequestUos : ExternalAdd(mempool_id("ep1", chain_id), uo)
    \/ \E uo \in RequestUos : ExternalRemove(mempool_id("ep1", chain_id), uo)
    \/ NextRequest("t1")

SpecDrop == Init /\ [][NextDrop]_vars

\* C26: no step of an admission writes the mempool or the reputation while
\* its validation is under way, whether the step goes on to the next call,
\* fails, or is the caller dropping the request; only the step that answers
\* Added, the last chain call having returned, is free to write
C26_NoWriteInFlight ==
    [][\A t \in Tasks :
          (task[t].op = "add" /\ task'[t] # task[t]
               /\ task[t].pc \in {"sanity", "prev"} \cup InFlight
               /\ ~(task'[t].pc = "done" /\ task'[t].result.result = "Added")) =>
              (mempools' = mempools /\ reputations' = reputations)]_vars

\* an admission dropped while simulate_validation_trace was in flight, the
\* pool holding an entry
C26_Witness ==
    \E t \in Tasks :
        /\ task[t].op = "add" /\ task[t].pc = "dropped"
        /\ task[t].calls[Len(task[t].calls)] = "simulate_validation_trace"
        /\ MempoolGetAll(mempools[mempool_id("ep1", chain_id)]) # {}
        /\ \A id \in MempoolIds : DOMAIN reputations[id] = {}

----------------------------------------------------------------------------
(* SpecIntrospect: one caller asks for the supported entry points while    *)
(* another submits add and estimate_gas requests for any entry point       *)

NextIntrospect ==
    \/ GetSupportedEntryPoints("t1")
    \/ \E uo \in RequestUos, ep \in EntryPoints : Add("t2", Some(uo), Some(ep), "")
    \/ task["t2"].op = "add" /\ ValidateStep("t2")
    \/ \E uo \in RequestUos, ep \in EntryPoints :
          EstimateUserOperationGas("t2", Some(uo), Some(ep), "")
    \/ EstimateSimulateReturn("t2")
    \/ EstimateGasReturn("t2")
    \/ \E t \in Tasks : NextRequest(t)

SpecIntrospect == Init /\ [][NextIntrospect]_vars

\* the request was turned away for its entry point
TurnedAway(t) ==
    /\ task[t].pc = "done"
    /\ task[t].result = Status("InvalidArgument", "entry point not supported")

----------------------------------------------------------------------------
(* SpecClear: one caller clears while another reads the pools with get_all  *)
(* and get_all_reputation.  The writers (set_reputation, the holders of the *)
(* ep1 pool) run only while no clear is under way, so every entry present   *)
(* during a clear was there before it began.                                *)

\* set_reputation served while no clear is under way
SetReputationBefore(t) ==
    /\ ~Clearing
    /\ \E ep \in {"ep1", "ep2"}, list \in ReputationLists : SetReputation(t, Some(ep), list)

NextClear ==
    \/ ClearMempools("t1")
    \/ ClearReputations("t1")
    \/ SetReputationBefore("t2")
    \/ QuietAdd
    \/ \E ep \in {"ep1", "ep2"} : GetAll("t2", Some(ep))
    \/ \E ep \in {"ep1", "ep2"} : GetAllReputation("t2", Some(ep))
    \/ \E t \in Tasks : NextRequest(t)

SpecClear == Init /\ [][NextClear]_vars

\* request u is answered by get_all_reputation in this step, a clear by t
\* having emptied the mempools and not yet the reputations
ReadsDuringClear(t, u) ==
    /\ task[t].pc = "clear_reputations" /\ task'[t].pc = "clear_reputations"
    /\ task[u].pc = "idle"
    /\ task'[u].op = "get_all_reputation" /\ task'[u].pc = "done"

\* C31: clear is atomic for the debug reads: a get_all_reputation answered
\* while a clear is under way, the mempools already emptied, never returns a
\* reputation entry from before the clear
C31_ClearAtomic ==
    [][\A t \in Tasks, u \in Tasks :
          ReadsDuringClear(t, u) => task'[u].result.res = {}]_vars

----------------------------------------------------------------------------
(* SpecGuards: the handlers at the grain of their parking_lot guards.  Each *)
(* handler waits for a guard, holds it over its critical section and drops  *)
(* it; two requests of any kind run at once on entry point ep1.  The        *)
(* lookups of the validation that add awaits take read guards               *)
(* (specification section 5).                                               *)

Locks == {"mempools", "reputations", "sanity_check_results"}

\* RwLock::read() returns once no request holds the write guard
CanRead(lock) == \A u \in Tasks : <<lock, "write">> \notin task[u].guards

\* RwLock::write() returns once no request holds any guard of the lock
CanWrite(lock) ==
    \A u \in Tasks : task[u].guards \cap {<<lock, "read">>, <<lock, "write">>} = {}

\* the request arrives and its handler runs up to its first guard
Serve(t, op, pc) ==
    /\ task[t].pc = "idle"
    /\ task' = [task EXCEPT ![t] = [IdleTask EXCEPT !.op = op, !.pc = pc,
                                       !.ep = Some(PoolEp),
                                       !.uo = IF op = "add" THEN Some(UoA) ELSE None]]
    /\ UNCHANGED <<mempools, reputations, sanity_check_results, comp, direct>>

\* the guard is granted
Take(t, from, lock, mode, to) ==
    /\ task[t].pc = from
    /\ IF mode = "read" THEN CanRead(lock) ELSE CanWrite(lock)
    /\ task' = [task EXCEPT ![t].guards = @ \cup {<<lock, mode>>}, ![t].pc = to]
    /\ UNCHANGED <<mempools, reputations, sanity_check_results, comp, direct>>

\* the handler answers, holding no guard any more
Answered(t, r) ==
    task' = [task EXCEPT ![t].pc = "done", ![t].guards = {}, ![t].result = r]

\* uopool.rs 246: self.mempools.write()
ClearTakeMempools(t) == Take(t, "clear", "mempools", "write", "clear_mempools")

\* a clear that keeps the mempools guard for the rest of the handler
ClearKeepMempools(t) ==
    /\ task[t].pc = "clear_mempools"
    /\ mempools' = [id \in DOMAIN mempools |-> MempoolClear(mempools[id])]
    /\ task' = [task EXCEPT ![t].pc = "clear_reputations"]
    /\ UNCHANGED <<reputations, sanity_check_results, comp, direct>>

\* uopool.rs 246-248: the loop clears every mempool; the guard, a temporary
\* of the loop, is dropped at its end
ClearDropMempools(t) ==
    /\ task[t].pc = "clear_mempools"
    /\ mempools' = [id \in DOMAIN mempools |-> MempoolClear(mempools[id])]
    /\ task' = [task EXCEPT ![t].pc = "clear_reputations",
                    ![t].guards = @ \ {<<"mempools", "write">>}]
    /\ UNCHANGED <<reputations, sanity_check_results, comp, direct>>

\* uopool.rs 250: self.reputations.write()
ClearTakeReputations(t) ==
    Take(t, "clear_reputations", "reputations", "write", "clear_reputations_held")

\* uopool.rs 250-256
ClearDropReputations(t) ==
    /\ task[t].pc = "clear_reputations_held"
    /\ reputations' = [id \in DOMAIN reputations |-> EmptyFcn]
    /\ Answered(t, [NoResult EXCEPT !.status = "Response", !.result = "Cleared"])
    /\ UNCHANGED <<mempools, sanity_check_results, comp, direct>>

\* uopool.rs 272-275: self.mempools.read()
GetAllTake(t) == Take(t, "get_all", "mempools", "read", "get_all_held")

\* uopool.rs 276-286: the list is copied and the guard dropped with the if let
GetAllDrop(t) ==
    /\ task[t].pc = "get_all_held"
    /\ Answered(t, [NoResult EXCEPT !.status = "Response", !.result = "GotAll",
                       !.uos = MempoolGetAll(mempools[PoolOf(t)])])
    /\ UNCHANGED <<mempools, reputations, sanity_check_results, comp, direct>>

\* uopool.rs 306-309: self.reputations.write()
SetReputationTake(t) ==
    Take(t, "set_reputation", "reputations", "write", "set_reputation_held")

\* uopool.rs 310-316: the list of the request is stored
SetReputationDrop(t) ==
    /\ task[t].pc = "set_reputation_held"
    /\ \E list \in ReputationLists :
          reputations' = [reputations EXCEPT ![PoolOf(t)] = ReputationSet(@, list)]
    /\ Answered(t, [NoResult EXCEPT !.status = "Response", !.result = "SetReputation"])
    /\ UNCHANGED <<mempools, sanity_check_results, comp, direct>>

\* uopool.rs 336-339: self.reputations.read()
GetAllReputationTake(t) ==
    Take(t, "get_all_reputation", "reputations", "read", "get_all_reputation_held")

\* uopool.rs 340-346
GetAllReputationDrop(t) ==
    /\ task[t].pc = "get_all_reputation_held"
    /\ Answered(t, [NoResult EXCEPT !.status = "Response",
                       !.result = "GotAllReputation",
                       !.res = ReputationGetAll(reputations[PoolOf(t)])])
    /\ UNCHANGED <<mempools, reputations, sanity_check_results, comp, direct>>

\* the validation add awaits (uopool.rs 107-109): the reputation lookups of
\* its checks under the read guard of the reputations
AddTakeReputations(t) == Take(t, "add", "reputations", "read", "add_reputations_held")

\* the guard is dropped, the lookup of the entry's predecessor comes next
AddDropReputations(t) ==
    /\ task[t].pc = "add_reputations_held"
    /\ task' = [task EXCEPT ![t].pc = "add_mempools",
                    ![t].guards = @ \ {<<"reputations", "read">>}]
    /\ UNCHANGED <<mempools, reputations, sanity_check_results, comp, direct>>

\* get_prev_by_sender under the read guard of the mempools
AddTakeMempools(t) == Take(t, "add_mempools", "mempools", "read", "add_mempools_held")

\* the guard is dropped and the first chain call is made
AddDropMempools(t) ==
    /\ task[t].pc = "add_mempools_held"
    /\ task' = [task EXCEPT ![t].pc = "simulate_validation",
                    ![t].guards = @ \ {<<"mempools", "read">>},
                    ![t].calls = <<"simulate_validation">>]
    /\ UNCHANGED <<mempools, reputations, sanity_check_results, comp, direct>>

\* the chain client answers: the validation goes on to its next call, ends
\* with an Outcome (uopool.rs 111-121: Added, no guard taken) or ends with an
\* error (uopool.rs 123: the sanity results are wanted)
AddChainAnswer(t) ==
    /\ task[t].pc \in InFlight
    /\ \/ task' = [task EXCEPT ![t].pc = "add_results"]
       \/ /\ task[t].pc = "simulate_validation"
          /\ task' = [task EXCEPT ![t].pc = "get_block",
                          ![t].calls = Append(@, "get_block")]
       \/ /\ task[t].pc = "get_block"
          /\ task' = [task EXCEPT ![t].pc = "simulate_validation_trace",
                          ![t].calls = Append(@, "simulate_validation_trace")]
       \/ /\ task[t].pc = "simulate_validation_trace"
          /\ Answered(t, [NoResult EXCEPT !.status = "Response", !.result = "Added"])
    /\ UNCHANGED <<mempools, reputations, sanity_check_results, comp, direct>>

\* uopool.rs 123-125: self.sanity_check_results.write()
AddTakeResults(t) ==
    Take(t, "add_results", "sanity_check_results", "write", "add_results_held")

\* uopool.rs 124-129: the results of the hash are removed, NotAdded answered
AddDropResults(t) ==
    /\ task[t].pc = "add_results_held"
    /\ sanity_check_results' =
           sanity_check_results \ {Hash(Unwrap(task[t].uo), PoolEp, chain_id)}
    /\ Answered(t, [NoResult EXCEPT !.status = "Response", !.result = "NotAdded"])
    /\ UNCHANGED <<mempools, reputations, comp, direct>>

\* the handlers that take guards
GuardedOps == {"add", "clear", "get_all", "set_reputation", "get_all_reputation"}

\* one step of task t
GuardStep(t) ==
    \/ \E op \in GuardedOps : Serve(t, op, op)
    \/ ClearTakeMempools(t)
    \/ ClearDropMempools(t)
    \/ ClearTakeReputations(t)
    \/ ClearDropReputations(t)
    \/ GetAllTake(t)
    \/ GetAllDrop(t)
    \/ SetReputationTake(t)
    \/ SetReputationDrop(t)
    \/ GetAllReputationTake(t)
    \/ GetAllReputationDrop(t)
    \/ AddTakeReputations(t)
    \/ AddDropReputations(t)
    \/ AddTakeMempools(t)
    \/ AddDropMempools(t)
    \/ AddChainAnswer(t)
    \/ AddTakeResults(t)
    \/ AddDropResults(t)
    \/ NextRequest(t)

NextGuards == \E t \in Tasks : GuardStep(t)

\* every request is scheduled, the chain client answers, and the locks are
\* fair: a request that can be granted its guard again and again gets it
SpecGuards == Init /\ [][NextGuards]_vars /\ \A t \in Tasks : SF_vars(GuardStep(t))

\* no request holds two guards, and none holds a guard while a chain call of
\* its validation is in flight
GuardDiscipline ==
    \A t \in Tasks :
        /\ Cardinality(task[t].guards) <= 1
        /\ task[t].pc \in InFlight => task[t].guards = {}

====
